---------------------------- MODULE Spec2Model ----------------------------
(***************************************************************************)
(* Model of the document-intelligence extraction pipeline:                 *)
(*   - the response recovery and parsing of the procedure extractor        *)
(*     (python-sidecar/app/dip_processor.py),                              *)
(*   - the parallel chunk pipeline with its dedup-and-cap step             *)
(*     (test_anthropic_chunks.py),                                         *)
(*   - the page loop of the PDF parser (python-sidecar/app/parser.py).     *)
(*                                                                         *)
(* Text is a sequence of one-character strings, so that strip, find,       *)
(* slicing, the brace scan and the JSON grammar work on characters as the  *)
(* Python code does.  Python indices are 0-based; the Py* operators take   *)
(* and return 0-based indices.                                             *)
(***************************************************************************)
EXTENDS Integers, Sequences, FiniteSets, TLC

VARIABLES
    \* response recovery (dip_processor.py, lines 553-595)
    reply_parts,        \* how the provider composed the response text
    response_content,   \* response.content[0].text
    json_content,       \* the local json_content after the recovery steps
    loaded,             \* json.loads(json_content): [ok, val]
    rec_pc              \* "received" -> "cleaned" -> "loaded"

VARIABLES
    \* DIPProcessor.extract_playbook_hints_anthropic (dip_processor.py)
    playbook_provider,    \* self.playbook_provider
    anthropic_client,     \* whether self.anthropic_client is set
    openai_client,        \* whether self.openai_client is set
    supabase_configured,  \* SUPABASE_URL and a service key are in the environment
    dip_pc,               \* where the call stands
    dip_reply,            \* what the text-generation provider answered
    playbook_hints,       \* the list the call returned
    dip_raised,           \* whether an exception reached the caller
    dip_requests          \* the external requests issued, in order

VARIABLES
    \* process_chunks_parallel and the dedup step (test_anthropic_chunks.py)
    chunks_data,        \* the input chunks
    future_state,       \* per chunk: "queued", "running", "done", "collected"
    future_result,      \* per chunk: what its future holds, [raised, value]
    provider_reply,     \* per chunk: what the provider answered to its call
    all_procedures,     \* the aggregation list
    chunk_results,      \* one record per collected future
    completed_count,
    unique_procedures,  \* the deduplicated, capped list
    rerun_procedures,   \* the dedup step applied to unique_procedures
    pc                  \* where the main thread stands

recVars == <<reply_parts, response_content, json_content, loaded, rec_pc>>

dipVars == <<playbook_provider, anthropic_client, openai_client,
             supabase_configured, dip_pc, dip_reply, playbook_hints,
             dip_raised, dip_requests>>

pipeVars == <<chunks_data, future_state, future_result, provider_reply,
              all_procedures, chunk_results, completed_count,
              unique_procedures, rerun_procedures, pc>>

\* PDFParser.parse_pdf: the arguments and the parser, the locals of the page
\* loop, the calls made to the OCR step, and where the call stands
VARIABLES content_opens, pdf_pages, extract_tables, ocr_enabled,
          tesseract_available, page_num, pages_total, pages_parsed, pages_ocr,
          tables_found, elements, tables, ocr_calls, parse_pc

parseVars == <<content_opens, pdf_pages, extract_tables, ocr_enabled,
               tesseract_available, page_num, pages_total, pages_parsed,
               pages_ocr, tables_found, elements, tables, ocr_calls, parse_pc>>

\* a call of one of the pure helpers of DIPProcessor: its arguments, its
\* result, and where the call stands
VARIABLES call_args, call_result, call_pc

callVars == <<call_args, call_result, call_pc>>

\* DIPProcessor.process_document and process_chunks: the chunks given, the
\* lists of the three passes, the packet returned, and where the call stands
VARIABLES dip_chunks, entities, spec_hints, golden_tests, packet, packet_pc

packetVars == <<dip_chunks, entities, spec_hints, golden_tests, packet,
                packet_pc>>

vars == <<recVars, dipVars, pipeVars, parseVars, callVars, packetVars>>

(***************************************************************************)
(* Python str helpers                                                      *)
(***************************************************************************)

\* str.strip() with no argument removes these (the ones that occur here).
Whitespace == {" ", "\n"}

RECURSIVE LStrip(_)
LStrip(s) ==
    IF s # <<>> /\ Head(s) \in Whitespace THEN LStrip(Tail(s)) ELSE s

RECURSIVE RStrip(_)
RStrip(s) ==
    IF s # <<>> /\ s[Len(s)] \in Whitespace
    THEN RStrip(SubSeq(s, 1, Len(s) - 1))
    ELSE s

Strip(s) == RStrip(LStrip(s))

\* s[a:b] for 0 <= a, 0 <= b
PySlice(s, a, b) == SubSeq(s, a + 1, IF b > Len(s) THEN Len(s) ELSE b)

\* s[a:]
PySliceFrom(s, a) == SubSeq(s, a + 1, Len(s))

\* whether sub occurs in s at 0-based position i
OccursAt(s, sub, i) ==
    /\ i + Len(sub) <= Len(s)
    /\ \A k \in 1..Len(sub) : s[i + k] = sub[k]

\* s.find(sub, start): the lowest 0-based index >= start, or -1
PyFind(s, sub, start) ==
    LET hits == {i \in start..(Len(s) - Len(sub)) : OccursAt(s, sub, i)}
    IN  IF hits = {} THEN -1
        ELSE CHOOSE i \in hits : \A j \in hits : i <= j

\* sub in s
PyContains(s, sub) == PyFind(s, sub, 0) # -1

UpperLetters ==
    <<"A","B","C","D","E","F","G","H","I","J","K","L","M",
      "N","O","P","Q","R","S","T","U","V","W","X","Y","Z">>

LowerLetters ==
    <<"a","b","c","d","e","f","g","h","i","j","k","l","m",
      "n","o","p","q","r","s","t","u","v","w","x","y","z">>

LowerChar(c) ==
    IF \E i \in 1..Len(UpperLetters) : UpperLetters[i] = c
    THEN LowerLetters[CHOOSE i \in 1..Len(UpperLetters) : UpperLetters[i] = c]
    ELSE c

\* str.lower()
PyLower(s) == [i \in 1..Len(s) |-> LowerChar(s[i])]

(***************************************************************************)
(* json.loads, for the JSON the responses here are written in: objects,    *)
(* arrays, strings without escapes, null, and insignificant whitespace.    *)
(* A value is [k |-> kind, v |-> payload]:                                 *)
(*   "str"  : v the characters          "arr" : v the sequence of values   *)
(*   "obj"  : v the sequence of [key, val] members, in source order        *)
(*   "null" : v empty                                                      *)
(* Numbers, true/false and backslash escapes do not occur in the texts     *)
(* drawn below and are not parsed.                                         *)
(***************************************************************************)

JStr(chars) == [k |-> "str", v |-> chars]
JArr(items) == [k |-> "arr", v |-> items]
JObj(members) == [k |-> "obj", v |-> members]
JNull == [k |-> "null", v |-> <<>>]
Member(key, val) == [key |-> key, val |-> val]

ParseFail == [ok |-> FALSE, val |-> JNull, pos |-> 0]
ParseOk(val, pos) == [ok |-> TRUE, val |-> val, pos |-> pos]

\* first 1-based index >= i that holds no whitespace (Len(s)+1 when none)
RECURSIVE SkipWs(_, _)
SkipWs(s, i) ==
    IF i <= Len(s) /\ s[i] \in Whitespace THEN SkipWs(s, i + 1) ELSE i

\* s[i] is the opening quote; a raw newline inside a string is a control
\* character, which json.loads rejects
ParseString(s, i) ==
    LET closes == {j \in (i + 1)..Len(s) : s[j] = "\""}
    IN  IF closes = {} THEN ParseFail
        ELSE LET j == CHOOSE x \in closes : \A y \in closes : x <= y
             IN  IF \E m \in (i + 1)..(j - 1) : s[m] = "\n"
                 THEN ParseFail
                 ELSE ParseOk(JStr(SubSeq(s, i + 1, j - 1)), j + 1)

NullWord == <<"n", "u", "l", "l">>

RECURSIVE ParseValue(_, _)
RECURSIVE ParseMembers(_, _, _)
RECURSIVE ParseElements(_, _, _)

\* a value starting at the first non-blank position >= i
ParseValue(s, i) ==
    LET j == SkipWs(s, i)
    IN  IF j > Len(s) THEN ParseFail
        ELSE IF s[j] = "\"" THEN ParseString(s, j)
        ELSE IF s[j] = "{" THEN
            LET m == SkipWs(s, j + 1)
            IN  IF m <= Len(s) /\ s[m] = "}"
                THEN ParseOk(JObj(<<>>), m + 1)
                ELSE ParseMembers(s, m, <<>>)
        ELSE IF s[j] = "[" THEN
            LET m == SkipWs(s, j + 1)
            IN  IF m <= Len(s) /\ s[m] = "]"
                THEN ParseOk(JArr(<<>>), m + 1)
                ELSE ParseElements(s, m, <<>>)
        ELSE IF OccursAt(s, NullWord, j - 1) THEN ParseOk(JNull, j + 4)
        ELSE ParseFail

\* "key": value members from i (no blank at i) up to the closing brace
ParseMembers(s, i, acc) ==
    IF i > Len(s) \/ s[i] # "\"" THEN ParseFail
    ELSE LET key == ParseString(s, i)
         IN  IF ~key.ok THEN ParseFail
             ELSE LET c == SkipWs(s, key.pos)
                  IN  IF c > Len(s) \/ s[c] # ":" THEN ParseFail
                      ELSE LET val == ParseValue(s, c + 1)
                           IN  IF ~val.ok THEN ParseFail
                               ELSE LET e == SkipWs(s, val.pos)
                                        acc2 == Append(acc, Member(key.val.v, val.val))
                                    IN  IF e > Len(s) THEN ParseFail
                                        ELSE IF s[e] = "}" THEN ParseOk(JObj(acc2), e + 1)
                                        ELSE IF s[e] = ","
                                             THEN ParseMembers(s, SkipWs(s, e + 1), acc2)
                                        ELSE ParseFail

\* array elements from i up to the closing bracket
ParseElements(s, i, acc) ==
    LET val == ParseValue(s, i)
    IN  IF ~val.ok THEN ParseFail
        ELSE LET e == SkipWs(s, val.pos)
                 acc2 == Append(acc, val.val)
             IN  IF e > Len(s) THEN ParseFail
                 ELSE IF s[e] = "]" THEN ParseOk(JArr(acc2), e + 1)
                 ELSE IF s[e] = "," THEN ParseElements(s, e + 1, acc2)
                 ELSE ParseFail

\* json.loads(s): [ok, val]; ok = FALSE is json.JSONDecodeError
JsonLoads(s) ==
    LET r == ParseValue(s, 1)
    IN  IF r.ok /\ SkipWs(s, r.pos) > Len(s)
        THEN [ok |-> TRUE, val |-> r.val]
        ELSE [ok |-> FALSE, val |-> JNull]


(***************************************************************************)
(* Response recovery: DIPProcessor._extract_playbook_hints_anthropic_impl, *)
(* lines 553-583                                                           *)
(***************************************************************************)

\* the backquote character (U+0060), which a TLA+ string literal cannot hold
Backquote == "BACKQUOTE"

\* the markers the code searches for: three backquotes + json, three backquotes
FenceJson == <<Backquote, Backquote, Backquote, "j", "s", "o", "n">>
Fence == <<Backquote, Backquote, Backquote>>

\* lines 556-563: remove markdown code blocks if present
StripFence(content) ==
    IF PyContains(content, FenceJson)
    THEN LET json_start == PyFind(content, FenceJson, 0) + 7
             json_end == PyFind(content, Fence, json_start)
         IN  IF json_end # -1
             THEN Strip(PySlice(content, json_start, json_end))
             ELSE Strip(PySliceFrom(content, json_start))
    ELSE content

\* lines 565-568: find JSON object start if there is explanatory text
LocateFirstBrace(content) ==
    LET json_start_pos == PyFind(content, <<"{">>, 0)
    IN  IF json_start_pos > 0
        THEN Strip(PySliceFrom(content, json_start_pos))
        ELSE content

\* brace_count after the loop of lines 571-580 has passed the first p
\* characters: one up for every opening brace, one down for every closing
BraceCount(content, p) ==
    Cardinality({k \in 1..p : content[k] = "{"})
        - Cardinality({k \in 1..p : content[k] = "}"})

\* lines 571-580: the value of json_end_pos when the loop ends, which is
\* behind the first closing brace that brings brace_count to 0, or -1
BraceScan(content) ==
    LET ends == {p \in 1..Len(content) :
                     content[p] = "}" /\ BraceCount(content, p) = 0}
    IN  IF ends = {} THEN -1
        ELSE CHOOSE p \in ends : \A other \in ends : p <= other

\* lines 570-583: find JSON object end (handle potential trailing text)
CutAtObjectEnd(content) ==
    LET json_end_pos == BraceScan(content)
    IN  IF json_end_pos > 0
        THEN Strip(PySlice(content, 0, json_end_pos))
        ELSE content

\* lines 553-583
RecoverJson(text) ==
    CutAtObjectEnd(LocateFirstBrace(StripFence(Strip(text))))

(***************************************************************************)
(* Response texts a provider can write                                     *)
(***************************************************************************)

KeyProcedures == <<"p","r","o","c","e","d","u","r","e","s">>
KeyTitle == <<"t","i","t","l","e">>

Quoted(chars) == <<"\"">> \o chars \o <<"\"">>

RECURSIVE JoinComma(_)
JoinComma(texts) ==
    IF texts = <<>> THEN <<>>
    ELSE IF Len(texts) = 1 THEN texts[1]
    ELSE texts[1] \o <<",">> \o JoinComma(Tail(texts))

\* {"title":"<title>"}
RenderProcedure(title) ==
    <<"{">> \o Quoted(KeyTitle) \o <<":">> \o Quoted(title) \o <<"}">>

\* {"procedures":[{"title":...},...]}
RenderProcedures(titles) ==
    <<"{">> \o Quoted(KeyProcedures) \o <<":", "[">>
        \o JoinComma([i \in 1..Len(titles) |-> RenderProcedure(titles[i])])
        \o <<"]", "}">>

LeadSure ==
    <<"S","u","r","e","!"," ","H","e","r","e"," ","i","s"," ","t","h","e",
      " ","a","n","s","w","e","r",":","\n">>
LeadWithBrace == <<"I","n"," ","{","a","}",":"," ">>
TrailThanks == <<"\n","T","h","a","n","k","s",".">>
TrailWithBrace == <<" ","}"," ","o","k">>

Leads == {<<>>, LeadSure, LeadWithBrace, <<" ", "\n">>}
Trails == {<<>>, TrailThanks, TrailWithBrace, <<"\n">>}

\* well-formed JSON objects
WellFormedObjects ==
    { RenderProcedures(<<>>),
      RenderProcedures(<< <<"A">> >>),
      RenderProcedures(<< <<"A">>, <<"b"," ","c">> >>),
      RenderProcedures(<< <<"a","}">> >>),
      RenderProcedures(<< <<"{","a","}">> >>),
      RenderProcedures(<< <<"{">> >>),
      <<"{"," ">> \o Quoted(KeyProcedures) \o <<" ",":"," ","[","\n","]"," ","}">>,
      <<"{">> \o Quoted(<<"a">>) \o <<":","{">> \o Quoted(<<"b">>)
          \o <<":","n","u","l","l","}","}">> }

\* texts that hold no JSON value at all
MalformedTexts ==
    { <<>>,
      <<"n","o"," ","j","s","o","n">>,
      <<"{">>,
      <<"}">>,
      <<"{">> \o Quoted(KeyProcedures) \o <<":","[">>,
      <<"{">> \o Quoted(KeyProcedures) \o <<":","[","]",",","}">>,
      <<"{">> \o Quoted(KeyTitle) \o <<":">> \o <<"\"","a","\n","\"","}">> }

Compose(parts) ==
    IF parts.fenced
    THEN parts.lead \o FenceJson \o <<"\n">> \o parts.object \o <<"\n">>
             \o Fence \o parts.trail
    ELSE parts.lead \o parts.object \o parts.trail

ReplyParts ==
    [lead : Leads, object : WellFormedObjects, trail : Trails, fenced : BOOLEAN]
        \cup [lead : {<<>>}, object : MalformedTexts, trail : {<<>>},
              fenced : {FALSE}]

NotLoaded == [ok |-> FALSE, val |-> JNull]

RecoverIdle ==
    /\ reply_parts = [lead |-> <<>>, object |-> <<>>, trail |-> <<>>,
                      fenced |-> FALSE]
    /\ response_content = <<>>
    /\ json_content = <<>>
    /\ loaded = NotLoaded
    /\ rec_pc = "idle"

DipIdle ==
    /\ playbook_provider = "anthropic"
    /\ anthropic_client = FALSE
    /\ openai_client = FALSE
    /\ supabase_configured = FALSE
    /\ dip_pc = "idle"
    /\ dip_reply = [kind |-> "none", text |-> <<>>]
    /\ playbook_hints = <<>>
    /\ dip_raised = FALSE
    /\ dip_requests = <<>>

PipeIdle ==
    /\ chunks_data = <<>>
    /\ future_state = <<>>
    /\ future_result = <<>>
    /\ provider_reply = <<>>
    /\ all_procedures = <<>>
    /\ chunk_results = <<>>
    /\ completed_count = 0
    /\ unique_procedures = <<>>
    /\ rerun_procedures = <<>>
    /\ pc = "idle"

ParseIdle ==
    /\ content_opens = FALSE
    /\ pdf_pages = <<>>
    /\ extract_tables = FALSE
    /\ ocr_enabled = FALSE
    /\ tesseract_available = FALSE
    /\ page_num = 0
    /\ pages_total = 0
    /\ pages_parsed = 0
    /\ pages_ocr = 0
    /\ tables_found = 0
    /\ elements = <<>>
    /\ tables = <<>>
    /\ ocr_calls = <<>>
    /\ parse_pc = "idle"

CallIdle ==
    /\ call_args = <<>>
    /\ call_result = <<>>
    /\ call_pc = "idle"

NoPacket == [success |-> FALSE]

PacketIdle ==
    /\ dip_chunks = <<>>
    /\ entities = <<>>
    /\ spec_hints = <<>>
    /\ golden_tests = <<>>
    /\ packet = NoPacket
    /\ packet_pc = "idle"

InitRecover ==
    /\ DipIdle
    /\ PipeIdle
    /\ ParseIdle
    /\ CallIdle
    /\ PacketIdle
    /\ reply_parts \in ReplyParts
    /\ response_content = Compose(reply_parts)
    /\ json_content = <<>>
    /\ loaded = NotLoaded
    /\ rec_pc = "received"

\* lines 553-583
Recover ==
    /\ rec_pc = "received"
    /\ json_content' = RecoverJson(response_content)
    /\ rec_pc' = "cleaned"
    /\ UNCHANGED <<reply_parts, response_content, loaded>>
    /\ UNCHANGED <<dipVars, pipeVars, parseVars, callVars, packetVars>>

\* line 595
Load ==
    /\ rec_pc = "cleaned"
    /\ loaded' = JsonLoads(json_content)
    /\ rec_pc' = "loaded"
    /\ UNCHANGED <<reply_parts, response_content, json_content>>
    /\ UNCHANGED <<dipVars, pipeVars, parseVars, callVars, packetVars>>

NextRecover == Recover \/ Load

SpecRecover == InitRecover /\ [][NextRecover]_vars


(***************************************************************************)
(* Python dict and iteration over parsed JSON                              *)
(***************************************************************************)

HasKey(obj, key) == \E i \in 1..Len(obj.v) : obj.v[i].key = key

\* dict.get(key, default): json.loads keeps the last member of a repeated key
DictGet(obj, key, default) ==
    IF HasKey(obj, key)
    THEN obj.v[CHOOSE i \in 1..Len(obj.v) :
                   /\ obj.v[i].key = key
                   /\ \A j \in (i + 1)..Len(obj.v) : obj.v[j].key # key].val
    ELSE default

\* the keys of a dict, each once, in insertion order
RECURSIVE DictKeys(_, _)
DictKeys(members, seen) ==
    IF members = <<>> THEN <<>>
    ELSE IF Head(members).key \in seen THEN DictKeys(Tail(members), seen)
    ELSE <<JStr(Head(members).key)>>
             \o DictKeys(Tail(members), seen \cup {Head(members).key})

\* whether "for x in value" is possible (None is not iterable)
Iterable(value) == value.k \in {"arr", "str", "obj"}

\* what "for x in value" (and list.extend(value)) goes through
PyIter(value) ==
    IF value.k = "arr" THEN value.v
    ELSE IF value.k = "str" THEN [i \in 1..Len(value.v) |-> JStr(<<value.v[i]>>)]
    ELSE IF value.k = "obj" THEN DictKeys(value.v, {})
    ELSE <<>>

(***************************************************************************)
(* DIPProcessor._categorize_procedure, lines 776-791                       *)
(***************************************************************************)

InstallationWords ==
    { <<"i","n","s","t","a","l","l">>,
      <<"s","e","t","u","p">>,
      <<"m","o","u","n","t">>,
      <<"c","o","n","n","e","c","t">> }

OperationWords ==
    { <<"s","t","a","r","t">>,
      <<"s","t","o","p">>,
      <<"p","o","w","e","r">>,
      <<"o","n">>,
      <<"o","f","f">>,
      <<"s","h","u","t","d","o","w","n">> }

TroubleshootingWords ==
    { <<"t","r","o","u","b","l","e","s","h","o","o","t">>,
      <<"d","i","a","g","n","o","s","e">>,
      <<"f","i","x">>,
      <<"r","e","p","a","i","r">>,
      <<"e","r","r","o","r">> }

MaintenanceWords ==
    { <<"m","a","i","n","t","a","i","n">>,
      <<"c","l","e","a","n">>,
      <<"s","e","r","v","i","c","e">>,
      <<"i","n","s","p","e","c","t">>,
      <<"c","h","e","c","k">> }

SafetyWords ==
    { <<"s","a","f","e","t","y">>,
      <<"w","a","r","n","i","n","g">>,
      <<"c","a","u","t","i","o","n">>,
      <<"d","a","n","g","e","r">> }

\* any(word in title_lower for word in words)
AnyWordIn(words, title_lower) == \E w \in words : PyContains(title_lower, w)

CategorizeProcedure(title) ==
    LET title_lower == PyLower(title)
    IN  IF AnyWordIn(InstallationWords, title_lower) THEN "installation"
        ELSE IF AnyWordIn(OperationWords, title_lower) THEN "operation"
        ELSE IF AnyWordIn(TroubleshootingWords, title_lower) THEN "troubleshooting"
        ELSE IF AnyWordIn(MaintenanceWords, title_lower) THEN "maintenance"
        ELSE IF AnyWordIn(SafetyWords, title_lower) THEN "safety"
        ELSE "operation"

(***************************************************************************)
(* The conversion of a parsed response to playbook hints, lines 595-619    *)
(* (and 742-766 on the OpenAI path).  An outcome is [raised, value]:       *)
(* raised = TRUE is an exception leaving the code modelled.                *)
(***************************************************************************)

Raises == [raised |-> TRUE, value |-> <<>>]
Returns(value) == [raised |-> FALSE, value |-> value]

KeyPreconditions == <<"p","r","e","c","o","n","d","i","t","i","o","n","s">>
KeyErrorCodes == <<"e","r","r","o","r","_","c","o","d","e","s">>

\* 'confidence': 0.9, in hundredths
AIConfidence == 90

\* lines 601-615, with n = len(playbook_hints) before the append; created_at
\* (the wall clock) is left out
PlaybookHint(doc_id, n, procedure) ==
    [ id |-> <<doc_id, n + 1>>,
      title |-> DictGet(procedure, KeyTitle, JStr(<<>>)).v,
      procedures |-> <<procedure>>,
      preconditions |-> DictGet(procedure, KeyPreconditions, JArr(<<>>)),
      error_codes |-> DictGet(procedure, KeyErrorCodes, JArr(<<>>)),
      category |-> CategorizeProcedure(DictGet(procedure, KeyTitle, JStr(<<>>)).v),
      doc_id |-> doc_id,
      confidence |-> AIConfidence ]

\* procedure.get needs a dict, and title.lower() (line 778) a str
Convertible(procedure) ==
    /\ procedure.k = "obj"
    /\ DictGet(procedure, KeyTitle, JStr(<<>>)).k = "str"

\* lines 596-619
ConvertProcedures(doc_id, parsed_response) ==
    IF parsed_response.k # "obj" THEN Raises
    ELSE LET procedures == DictGet(parsed_response, KeyProcedures, JArr(<<>>))
         IN  IF ~Iterable(procedures) THEN Raises
             ELSE LET items == PyIter(procedures)
                  IN  IF \E i \in 1..Len(items) : ~Convertible(items[i])
                      THEN Raises
                      ELSE Returns([i \in 1..Len(items) |->
                                        PlaybookHint(doc_id, i - 1, items[i])])

(***************************************************************************)
(* _extract_playbook_hints_anthropic_impl, lines 393-627                   *)
(***************************************************************************)

\* a handler that lets the exception through to the caller
AnthropicOuterExceptReraises == Raises

\* lines 625-627: except Exception: return []
AnthropicOuterExcept == Returns(<<>>)

\* lines 621-623: except json.JSONDecodeError: return []
AnthropicDecodeError == Returns(<<>>)

\* lines 546-551 log json_content, a local of the function that is first
\* assigned at line 554: reading it raises UnboundLocalError
JsonContentUnbound == TRUE

\* lines 553-623
AnthropicParse(doc_id, text) ==
    LET parsed == JsonLoads(RecoverJson(text))
    IN  IF ~parsed.ok THEN AnthropicDecodeError
        ELSE LET converted == ConvertProcedures(doc_id, parsed.val)
             IN  IF converted.raised THEN AnthropicOuterExcept ELSE converted

\* lines 445-627, from the provider's answer on
AnthropicOutcome(doc_id, reply) ==
    IF reply.kind = "error" THEN AnthropicOuterExcept
    ELSE IF reply.kind = "empty" THEN Returns(<<>>)
    ELSE IF JsonContentUnbound THEN AnthropicOuterExcept
    ELSE AnthropicParse(doc_id, reply.text)

(***************************************************************************)
(* _extract_playbook_hints_openai, lines 629-774                           *)
(***************************************************************************)

\* lines 772-774: except Exception: return []
OpenAIOuterExcept == Returns(<<>>)

\* lines 768-770: except json.JSONDecodeError: return []
OpenAIDecodeError == Returns(<<>>)

\* lines 740-770: response_content is parsed as it is, with no recovery
OpenAIParse(doc_id, text) ==
    LET parsed == JsonLoads(text)
    IN  IF ~parsed.ok THEN OpenAIDecodeError
        ELSE LET converted == ConvertProcedures(doc_id, parsed.val)
             IN  IF converted.raised THEN OpenAIOuterExcept ELSE converted

\* lines 701-774, from the provider's answer on
OpenAIOutcome(doc_id, reply) ==
    IF reply.kind = "error" THEN OpenAIOuterExcept
    ELSE IF reply.kind \in {"empty", "no_message"} THEN Returns(<<>>)
    ELSE OpenAIParse(doc_id, reply.text)


(***************************************************************************)
(* extract_playbook_hints_anthropic as a state machine: the call, the      *)
(* external requests it awaits, and its return                             *)
(***************************************************************************)

DocId == "doc"

TitleStartup ==
    <<"S","t","a","r","t","u","p"," ","S","e","q","u","e","n","c","e">>
TitleStartupVariant ==
    <<"s","t","a","r","t","u","p"," ","s","e","q","u","e","n","c","e"," ">>
TitleCleanFilter == <<"C","l","e","a","n"," ","F","i","l","t","e","r">>
TitleSafetyLock == <<"S","a","f","e","t","y"," ","L","o","c","k">>

\* completions the provider can return
CompletionTexts ==
    { RenderProcedures(<<>>),
      RenderProcedures(<< <<"A">> >>),
      RenderProcedures(<<TitleStartup, TitleStartupVariant>>),
      RenderProcedures(<<TitleCleanFilter, TitleSafetyLock, <<"A">> >>),
      RenderProcedures(<< <<"a","}">> >>),
      LeadSure \o FenceJson \o <<"\n">> \o RenderProcedures(<< <<"A">> >>)
          \o <<"\n">> \o Fence \o TrailThanks,
      <<"n","o"," ","j","s","o","n">>,
      <<"{">> \o Quoted(KeyProcedures) \o <<":","[">>,
      <<"[","]">>,
      <<"{">> \o Quoted(KeyProcedures) \o <<":","n","u","l","l","}">>,
      <<"{">> \o Quoted(KeyProcedures) \o <<":","[">> \o Quoted(<<"a">>)
          \o <<"]","}">> }

TextReplies == [kind : {"text"}, text : CompletionTexts]
AnthropicReplies ==
    [kind : {"error", "empty"}, text : {<<>>}] \cup TextReplies
OpenAIReplies ==
    [kind : {"error", "empty", "no_message"}, text : {<<>>}] \cup TextReplies

NoReply == [kind |-> "none", text |-> <<>>]

Providers == {"anthropic", "openai", "other"}

InitDIP ==
    /\ RecoverIdle
    /\ PipeIdle
    /\ ParseIdle
    /\ CallIdle
    /\ PacketIdle
    /\ playbook_provider \in Providers
    /\ anthropic_client \in BOOLEAN
    /\ openai_client \in BOOLEAN
    /\ supabase_configured \in BOOLEAN
    /\ dip_pc = "idle"
    /\ dip_reply = NoReply
    /\ playbook_hints = <<>>
    /\ dip_raised = FALSE
    /\ dip_requests = <<>>

\* the call returns (or raises) with this outcome
DipReturn(outcome) ==
    /\ dip_pc' = "returned"
    /\ playbook_hints' = outcome.value
    /\ dip_raised' = outcome.raised

\* lines 384-397 and 629-682: the call up to its first external request
DipCall ==
    /\ dip_pc = "idle"
    /\ IF playbook_provider = "openai"
       THEN IF ~openai_client \/ ~supabase_configured
            THEN DipReturn(Returns(<<>>)) /\ UNCHANGED dip_requests
            ELSE /\ dip_pc' = "download"
                 /\ dip_requests' = Append(dip_requests, "storage_get")
                 /\ UNCHANGED <<playbook_hints, dip_raised>>
       ELSE IF ~anthropic_client
            THEN DipReturn(Returns(<<>>)) /\ UNCHANGED dip_requests
            ELSE /\ dip_pc' = "anthropic_call"
                 /\ dip_requests' = Append(dip_requests, "anthropic_messages")
                 /\ UNCHANGED <<playbook_hints, dip_raised>>
    /\ UNCHANGED <<playbook_provider, anthropic_client, openai_client,
                   supabase_configured, dip_reply>>
    /\ UNCHANGED <<recVars, pipeVars, parseVars, callVars, packetVars>>

\* lines 679-696: the storage download answers
StorageResponds(result) ==
    /\ dip_pc = "download"
    /\ IF result = "ok"
       THEN /\ dip_pc' = "upload"
            /\ dip_requests' = Append(dip_requests, "openai_files")
            /\ UNCHANGED <<playbook_hints, dip_raised>>
       ELSE IF result = "status_error"
            THEN DipReturn(Returns(<<>>)) /\ UNCHANGED dip_requests
            ELSE DipReturn(OpenAIOuterExcept) /\ UNCHANGED dip_requests
    /\ UNCHANGED <<playbook_provider, anthropic_client, openai_client,
                   supabase_configured, dip_reply>>
    /\ UNCHANGED <<recVars, pipeVars, parseVars, callVars, packetVars>>

\* lines 693-710: the file upload answers
UploadResponds(result) ==
    /\ dip_pc = "upload"
    /\ IF result = "ok"
       THEN /\ dip_pc' = "openai_call"
            /\ dip_requests' = Append(dip_requests, "openai_responses")
            /\ UNCHANGED <<playbook_hints, dip_raised>>
       ELSE DipReturn(OpenAIOuterExcept) /\ UNCHANGED dip_requests
    /\ UNCHANGED <<playbook_provider, anthropic_client, openai_client,
                   supabase_configured, dip_reply>>
    /\ UNCHANGED <<recVars, pipeVars, parseVars, callVars, packetVars>>

\* lines 445-627: messages.create answers and the call returns
AnthropicResponds(reply) ==
    /\ dip_pc = "anthropic_call"
    /\ dip_reply' = reply
    /\ DipReturn(AnthropicOutcome(DocId, reply))
    /\ UNCHANGED <<playbook_provider, anthropic_client, openai_client,
                   supabase_configured, dip_requests>>
    /\ UNCHANGED <<recVars, pipeVars, parseVars, callVars, packetVars>>

\* lines 701-774: responses.create answers and the call returns
OpenAIResponds(reply) ==
    /\ dip_pc = "openai_call"
    /\ dip_reply' = reply
    /\ DipReturn(OpenAIOutcome(DocId, reply))
    /\ UNCHANGED <<playbook_provider, anthropic_client, openai_client,
                   supabase_configured, dip_requests>>
    /\ UNCHANGED <<recVars, pipeVars, parseVars, callVars, packetVars>>

NextDIP ==
    \/ DipCall
    \/ \E result \in {"ok", "status_error", "raise"} : StorageResponds(result)
    \/ \E result \in {"ok", "raise"} : UploadResponds(result)
    \/ \E reply \in AnthropicReplies : AnthropicResponds(reply)
    \/ \E reply \in OpenAIReplies : OpenAIResponds(reply)

SpecDIP == InitDIP /\ [][NextDIP]_vars


(***************************************************************************)
(* Properties of the response recovery and of the extractor's return       *)
(***************************************************************************)

\* the text is one well-formed JSON object, with nothing around it
IsJsonObjectText(text) ==
    /\ Strip(text) = text
    /\ JsonLoads(text).ok
    /\ JsonLoads(text).val.k = "obj"

\* C2: for a response made of optional leading prose, one well-formed JSON
\* object (optionally inside a json fence) and optional trailing prose, the
\* recovery steps yield exactly the text of that object, whatever characters
\* the prose and the string values contain.
C2_RecoveryYieldsTheObject ==
    (rec_pc \in {"cleaned", "loaded"} /\ IsJsonObjectText(reply_parts.object))
        => json_content = reply_parts.object

\* the substring the selected path hands to json.loads
TextToParse(provider, text) ==
    IF provider = "openai" THEN text ELSE RecoverJson(text)

\* C3: when the recovered substring cannot be parsed as JSON (also when the
\* response holds no opening brace, or braces that never balance), the
\* extractor returns zero procedures and no exception reaches its caller.
C3_UnparseableGivesNoProcedures ==
    ( /\ dip_pc = "returned"
      /\ dip_reply.kind = "text"
      /\ ~JsonLoads(TextToParse(playbook_provider, dip_reply.text)).ok )
        => (playbook_hints = <<>> /\ ~dip_raised)

\* a response without any opening brace came back on the Anthropic path and
\* the call returned the empty list
C3_Witness ==
    /\ dip_pc = "returned"
    /\ playbook_provider = "anthropic"
    /\ dip_reply.kind = "text"
    /\ PyFind(dip_reply.text, <<"{">>, 0) = -1
    /\ ~JsonLoads(RecoverJson(dip_reply.text)).ok
    /\ playbook_hints = <<>>
    /\ ~dip_raised

\* the text is a JSON object whose "procedures" is a list of objects with
\* string titles
IsProceduresValue(value) ==
    /\ value.k = "obj"
    /\ HasKey(value, KeyProcedures)
    /\ DictGet(value, KeyProcedures, JNull).k = "arr"
    /\ \A p \in 1..Len(DictGet(value, KeyProcedures, JNull).v) :
           Convertible(DictGet(value, KeyProcedures, JNull).v[p])

IsProceduresObject(text) ==
    LET parsed == JsonLoads(text)
    IN  parsed.ok /\ IsProceduresValue(parsed.val)

\* the titles of its procedures, in the order of the response
ResponseTitles(text) ==
    LET items == DictGet(JsonLoads(text).val, KeyProcedures, JNull).v
    IN  [p \in 1..Len(items) |-> DictGet(items[p], KeyTitle, JStr(<<>>)).v]

\* C4: when a provider client is configured and the provider returns a
\* completion that is a well-formed {"procedures": [...]} object with k
\* procedures, the call returns exactly k records, in the order of the
\* response, each with the title of its procedure.
C4_ReturnsEveryProcedure ==
    ( /\ dip_pc = "returned"
      /\ dip_reply.kind = "text"
      /\ IsProceduresObject(dip_reply.text) )
        => /\ Len(playbook_hints) = Len(ResponseTitles(dip_reply.text))
           /\ \A p \in 1..Len(playbook_hints) :
                  playbook_hints[p].title = ResponseTitles(dip_reply.text)[p]

\* title.strip().lower(), the deduplication key
NormalizedTitle(title) == PyLower(Strip(title))

\* C5: in the list extract_playbook_hints_anthropic returns, no two
\* procedures have titles that are equal after trimming and lower-casing.
C5_ReturnedTitlesDistinct ==
    dip_pc = "returned"
        => \A p, q \in 1..Len(playbook_hints) :
               p # q => NormalizedTitle(playbook_hints[p].title)
                            # NormalizedTitle(playbook_hints[q].title)


(***************************************************************************)
(* process_text_chunk, test_anthropic_chunks.py lines 59-106.  What a      *)
(* future holds is [raised, value]: the value returned, or the text of     *)
(* the exception raised.                                                   *)
(***************************************************************************)

KeyErrorField == <<"e","r","r","o","r">>
KeyRawResponse == <<"r","a","w","_","r","e","s","p","o","n","s","e">>

EmptyResponseText == <<"E","m","p","t","y"," ","r","e","s","p","o","n","s","e">>
JsonParseFailedText ==
    <<"J","S","O","N"," ","p","a","r","s","e"," ","f","a","i","l","e","d">>

\* str(e) of the exceptions the client raises
TimeoutText ==
    <<"R","e","q","u","e","s","t"," ","t","i","m","e","d"," ","o","u","t",".">>
ConnectionErrorText ==
    <<"C","o","n","n","e","c","t","i","o","n"," ","e","r","r","o","r",".">>

\* str(e) of the exceptions Python raises, by their type
AttributeErrorText == <<"A","t","t","r","i","b","u","t","e","E","r","r","o","r">>
TypeErrorText == <<"T","y","p","e","E","r","r","o","r">>

\* {"procedures": [], "error": reason}
ErrorResult(reason) ==
    JObj(<<Member(KeyProcedures, JArr(<<>>)), Member(KeyErrorField, JStr(reason))>>)

FutureRaised(text) == [raised |-> TRUE, value |-> JStr(text)]

\* a handler that hands the unparsed response on as the chunk's procedures
ChunkOnDecodeErrorKeepsRaw(text) ==
    Returns(JObj(<<Member(KeyProcedures, JArr(<<JStr(text)>>))>>))

\* lines 96-99: except json.JSONDecodeError
ChunkOnDecodeError(text) ==
    Returns(JObj(<<Member(KeyProcedures, JArr(<<>>)),
                   Member(KeyErrorField, JStr(JsonParseFailedText)),
                   Member(KeyRawResponse, JStr(text))>>))

\* lines 100-102
ChunkOnEmptyResponse == Returns(ErrorResult(EmptyResponseText))

\* lines 104-106: except Exception as e
ChunkOnException(text) == Returns(ErrorResult(text))

\* a worker that does not take len(procedures)
HasLenNotTaken(value) == TRUE

\* len(value) is defined
HasLen(value) == value.k \in {"arr", "str", "obj"}

\* lines 87-99: response_content is parsed as it is, with no recovery
ChunkParse(text) ==
    LET parsed == JsonLoads(text)
    IN  IF ~parsed.ok THEN ChunkOnDecodeError(text)
        ELSE IF parsed.val.k # "obj" THEN ChunkOnException(AttributeErrorText)
        ELSE IF ~HasLen(DictGet(parsed.val, KeyProcedures, JArr(<<>>)))
             THEN ChunkOnException(TypeErrorText)
        ELSE Returns(parsed.val)

\* lines 68-106, from the provider's answer on
ProcessTextChunk(reply) ==
    IF reply.kind = "error" THEN ChunkOnException(reply.text)
    ELSE IF reply.kind = "empty" THEN ChunkOnEmptyResponse
    ELSE ChunkParse(reply.text)

(***************************************************************************)
(* The dedup-and-cap step, test_anthropic_chunks.py lines 288-295          *)
(***************************************************************************)

ProcedureCap == 25

\* a condition that lets one procedure too many in
DedupAcceptsOneMore(title, unique, seen_titles) ==
    title # <<>> /\ title \notin seen_titles /\ Len(unique) <= ProcedureCap

\* a condition without the test of the title
DedupAcceptsUntitled(title, unique, seen_titles) ==
    title \notin seen_titles /\ Len(unique) < ProcedureCap

\* line 293
DedupAccepts(title, unique, seen_titles) ==
    title # <<>> /\ title \notin seen_titles /\ Len(unique) < ProcedureCap

\* unique_procedures.insert(0, proc)
DedupInsertFirst(unique, proc) == <<proc>> \o unique

\* line 294
DedupAppend(unique, proc) == Append(unique, proc)

\* lines 291-295: the loop over procs with the lists built so far;
\* proc.get needs a dict and .strip() a str
RECURSIVE DedupLoop(_, _, _)
DedupLoop(procs, unique, seen_titles) ==
    IF procs = <<>> THEN Returns(unique)
    ELSE IF ~Convertible(Head(procs)) THEN Raises
    ELSE LET title ==
                 NormalizedTitle(DictGet(Head(procs), KeyTitle, JStr(<<>>)).v)
         IN  IF DedupAccepts(title, unique, seen_titles)
             THEN DedupLoop(Tail(procs), DedupAppend(unique, Head(procs)),
                            seen_titles \cup {title})
             ELSE DedupLoop(Tail(procs), unique, seen_titles)

\* lines 289-295
Deduplicate(procs) == DedupLoop(procs, <<>>, {})

(***************************************************************************)
(* process_chunks_parallel, test_anthropic_chunks.py lines 108-159         *)
(***************************************************************************)

NumChunks == 4

MaxWorkers == 3

Chunks == 1..NumChunks

\* f"{page_start}-{page_end}"
PagesOf(chunk_data) == <<chunk_data.page_start, chunk_data.page_end>>

ChunkEntry(c, result) ==
    [chunk_num |-> c, pages |-> PagesOf(chunks_data[c]), result |-> result]

\* all_procedures = result['procedures']
AssignProcedures(procedures, items) == items

\* line 147
ExtendProcedures(procedures, items) == procedures \o items

\* lines 151-157: except Exception as e
CollectorExcept(entries, c, text) ==
    Append(entries, ChunkEntry(c, ErrorResult(text)))

Running == {c \in Chunks : future_state[c] = "running"}

\* a pool that starts a thread for every work item
WorkerAlwaysFree == TRUE

\* line 128: ThreadPoolExecutor(max_workers=max_workers) runs at most
\* max_workers threads, each of them one work item at a time
WorkerFree == Cardinality(Running) < MaxWorkers

\* ThreadPoolExecutor: a free worker takes the oldest queued work item
StartChunk(c) ==
    /\ pc = "collecting"
    /\ future_state[c] = "queued"
    /\ \A b \in Chunks : b < c => future_state[b] # "queued"
    /\ WorkerFree
    /\ future_state' = [future_state EXCEPT ![c] = "running"]
    /\ UNCHANGED <<chunks_data, future_result, provider_reply, all_procedures,
                   chunk_results, completed_count, unique_procedures,
                   rerun_procedures, pc>>
    /\ UNCHANGED <<recVars, dipVars, parseVars, callVars, packetVars>>

\* lines 68-106: the provider answers and the worker returns
FinishChunk(c, reply) ==
    /\ pc = "collecting"
    /\ future_state[c] = "running"
    /\ provider_reply' = [provider_reply EXCEPT ![c] = reply]
    /\ future_result' = [future_result EXCEPT ![c] = ProcessTextChunk(reply)]
    /\ future_state' = [future_state EXCEPT ![c] = "done"]
    /\ UNCHANGED <<chunks_data, all_procedures, chunk_results, completed_count,
                   unique_procedures, rerun_procedures, pc>>
    /\ UNCHANGED <<recVars, dipVars, parseVars, callVars, packetVars>>

\* a loop over the futures as they were submitted, finished or not
AsSubmitted(c) == future_state[c] \in {"running", "done"}

\* line 134: as_completed yields a future when it has finished
AsCompleted(c) == future_state[c] = "done"

\* lines 133-159: one turn of the as_completed loop; after the last one the
\* executor is left and the function returns
Collect(c) ==
    /\ pc = "collecting"
    /\ AsCompleted(c)
    /\ completed_count' = completed_count + 1
    /\ IF future_result[c].raised
       THEN /\ chunk_results' =
                   CollectorExcept(chunk_results, c, future_result[c].value.v)
            /\ UNCHANGED all_procedures
       ELSE LET result == future_result[c].value
                entered == Append(chunk_results, ChunkEntry(c, result))
            IN  IF ~HasKey(result, KeyProcedures)
                THEN chunk_results' = entered /\ UNCHANGED all_procedures
                ELSE IF ~Iterable(DictGet(result, KeyProcedures, JNull))
                THEN /\ chunk_results' = CollectorExcept(entered, c, TypeErrorText)
                     /\ UNCHANGED all_procedures
                ELSE /\ chunk_results' = entered
                     /\ all_procedures' =
                            ExtendProcedures(all_procedures,
                                PyIter(DictGet(result, KeyProcedures, JNull)))
    /\ future_state' = [future_state EXCEPT ![c] = "collected"]
    /\ pc' = IF \A b \in Chunks \ {c} : future_state[b] = "collected"
             THEN "returned"
             ELSE "collecting"
    /\ UNCHANGED <<chunks_data, future_result, provider_reply,
                   unique_procedures, rerun_procedures>>
    /\ UNCHANGED <<recVars, dipVars, parseVars, callVars, packetVars>>

\* lines 288-295 of test_anthropic_chunks_extraction; an exception ends the
\* function at line 349 with None
Dedup ==
    /\ pc = "returned"
    /\ LET outcome == Deduplicate(all_procedures)
       IN  IF outcome.raised
           THEN pc' = "failed" /\ UNCHANGED unique_procedures
           ELSE pc' = "deduplicated" /\ unique_procedures' = outcome.value
    /\ UNCHANGED <<chunks_data, future_state, future_result, provider_reply,
                   all_procedures, chunk_results, completed_count,
                   rerun_procedures>>
    /\ UNCHANGED <<recVars, dipVars, parseVars, callVars, packetVars>>

\* the dedup step applied to its own output
DedupAgain ==
    /\ pc = "deduplicated"
    /\ rerun_procedures' = Deduplicate(unique_procedures).value
    /\ pc' = "rerun"
    /\ UNCHANGED <<chunks_data, future_state, future_result, provider_reply,
                   all_procedures, chunk_results, completed_count,
                   unique_procedures>>
    /\ UNCHANGED <<recVars, dipVars, parseVars, callVars, packetVars>>

(***************************************************************************)
(* The chunked extraction: what the provider can answer for each chunk     *)
(***************************************************************************)

\* k counted round a list of n
Cyc(k, n) == ((k - 1) % n) + 1

ErrorReply(text) == [kind |-> "error", text |-> text]
EmptyReply == [kind |-> "empty", text |-> <<>>]
TextReply(text) == [kind |-> "text", text |-> text]

\* a provider error, a time-out, an empty and a malformed response
FailedReplies ==
    << ErrorReply(TimeoutText),
       EmptyReply,
       TextReply(LeadSure \o RenderProcedures(<< <<"A">> >>)),
       ErrorReply(ConnectionErrorText) >>

\* well-formed responses; equal titles up to case and blanks occur in
\* different chunks
ProcedureReplies ==
    << TextReply(RenderProcedures(<<TitleStartup, TitleCleanFilter>>)),
       TextReply(RenderProcedures(<<TitleStartupVariant, <<"A">> >>)),
       TextReply(RenderProcedures(<<TitleSafetyLock, TitleStartup>>)) >>

\* responses that parse but do not follow the output format
OddReplies ==
    << TextReply(RenderProcedures(<< <<>>, <<"B">> >>)),
       TextReply(<<"{">> \o Quoted(KeyProcedures) \o <<":","n","u","l","l","}">>),
       TextReply(<<"{">> \o Quoted(KeyProcedures) \o <<":">>
                     \o Quoted(<<"a","b">>) \o <<"}">>),
       TextReply(<<"{","}">>),
       TextReply(<<"[","]">>) >>

ChunkReplies(c) ==
    { FailedReplies[Cyc(c, Len(FailedReplies))],
      ProcedureReplies[Cyc(c, Len(ProcedureReplies))],
      OddReplies[Cyc(c, Len(OddReplies))] }

ChunkData(c) == [page_start |-> c, page_end |-> c]

Init ==
    /\ RecoverIdle
    /\ DipIdle
    /\ ParseIdle
    /\ CallIdle
    /\ PacketIdle
    /\ chunks_data = [c \in Chunks |-> ChunkData(c)]
    /\ future_state = [c \in Chunks |-> "queued"]
    /\ future_result = [c \in Chunks |-> Returns(JNull)]
    /\ provider_reply = [c \in Chunks |-> NoReply]
    /\ all_procedures = <<>>
    /\ chunk_results = <<>>
    /\ completed_count = 0
    /\ unique_procedures = <<>>
    /\ rerun_procedures = <<>>
    /\ pc = "collecting"

Next ==
    \/ \E c \in Chunks : StartChunk(c)
    \/ \E c \in Chunks : \E reply \in ChunkReplies(c) : FinishChunk(c, reply)
    \/ \E c \in Chunks : Collect(c)
    \/ Dedup

Spec == Init /\ [][Next]_vars

(***************************************************************************)
(* The aggregation on its own: every future is done and holds a result;    *)
(* the collecting loop meets them in any order, then the dedup step runs,  *)
(* and runs once more over its own output.                                 *)
(***************************************************************************)

BlockSize == 7

Letter == <<"a","b","c","d","e","f","g","h","i","j">>

\* the i-th title of chunk c
BlockTitle(c, i) == <<"p", Letter[c], Letter[i]>>

BlockTitles(c) == [i \in 1..BlockSize |-> BlockTitle(c, i)]

PreviousChunk(c) == IF c = 1 THEN NumChunks ELSE c - 1

\* titles of the chunk before, written differently; no title; a new title
VariantTitles(c) ==
    << <<"P", Letter[PreviousChunk(c)], Letter[1]>>,
       BlockTitle(PreviousChunk(c), 2) \o <<" ">>,
       <<>>,
       <<" ">>,
       <<"q", Letter[c]>> >>

ProceduresResult(titles) ==
    JObj(<<Member(KeyProcedures,
                  JArr([i \in 1..Len(titles) |->
                           JObj(<<Member(KeyTitle, JStr(titles[i]))>>)]))>>)

\* the first chunk may have failed
AggregateResults(c) ==
    { Returns(ProceduresResult(BlockTitles(c))),
      Returns(ProceduresResult(VariantTitles(c))) }
        \cup (IF c = 1 THEN {Returns(ErrorResult(TimeoutText))} ELSE {})

InitAggregate ==
    /\ RecoverIdle
    /\ DipIdle
    /\ ParseIdle
    /\ CallIdle
    /\ PacketIdle
    /\ chunks_data = [c \in Chunks |-> ChunkData(c)]
    /\ future_state = [c \in Chunks |-> "done"]
    /\ future_result \in [Chunks -> UNION {AggregateResults(c) : c \in Chunks}]
    /\ \A c \in Chunks : future_result[c] \in AggregateResults(c)
    /\ provider_reply = [c \in Chunks |-> NoReply]
    /\ all_procedures = <<>>
    /\ chunk_results = <<>>
    /\ completed_count = 0
    /\ unique_procedures = <<>>
    /\ rerun_procedures = <<>>
    /\ pc = "collecting"

NextAggregate ==
    \/ \E c \in Chunks : Collect(c)
    \/ Dedup
    \/ DedupAgain

SpecAggregate == InitAggregate /\ [][NextAggregate]_vars

(***************************************************************************)
(* Properties of the chunked extraction                                    *)
(***************************************************************************)

\* {"procedures": [], "error": <reason>, ...}
IsErrorRecord(result) ==
    /\ result.k = "obj"
    /\ DictGet(result, KeyProcedures, JNull) = JArr(<<>>)
    /\ DictGet(result, KeyErrorField, JNull).k = "str"
    /\ DictGet(result, KeyErrorField, JNull).v # <<>>

\* how the provider call of a chunk went: "failed" when it raised, timed
\* out, or returned an empty response or a response that is not JSON;
\* "succeeded" when it returned a {"procedures": [...]} object
CallOutcome(reply) ==
    IF reply.kind \in {"error", "empty"} THEN [how |-> "failed", val |-> JNull]
    ELSE IF reply.kind # "text" THEN [how |-> "none", val |-> JNull]
    ELSE LET parsed == JsonLoads(reply.text)
         IN  IF ~parsed.ok THEN [how |-> "failed", val |-> JNull]
             ELSE IF IsProceduresValue(parsed.val)
                  THEN [how |-> "succeeded", val |-> parsed.val]
             ELSE [how |-> "other", val |-> parsed.val]

CallFailed(reply) == CallOutcome(reply).how = "failed"

CallSucceeded(reply) == CallOutcome(reply).how = "succeeded"

ResponseProcedures(text) == DictGet(JsonLoads(text).val, KeyProcedures, JNull).v

\* what the chunk of an entry is due to add to the aggregate: nothing when
\* its call failed, the procedures of its response when it succeeded
Contribution(entry, outcome) ==
    IF outcome.how = "failed" THEN <<>>
    ELSE IF outcome.how = "succeeded"
         THEN DictGet(outcome.val, KeyProcedures, JNull).v
    ELSE PyIter(DictGet(entry.result, KeyProcedures, JArr(<<>>)))

RECURSIVE Contributions(_, _)
Contributions(entries, outcomes) ==
    IF entries = <<>> THEN <<>>
    ELSE Contribution(Head(entries), outcomes[Head(entries).chunk_num])
             \o Contributions(Tail(entries), outcomes)

Collected == {c \in Chunks : future_state[c] = "collected"}

\* some call can start or return, or some future can be collected
CanProceed ==
    \E c \in Chunks :
        \/ future_state[c] \in {"running", "done"}
        \/ future_state[c] = "queued" /\ Cardinality(Running) < MaxWorkers

\* C1: a chunk whose provider call raised, timed out, or returned an empty
\* or malformed response is recorded once, as {procedures: [], error: reason},
\* and adds nothing to the aggregate; a chunk whose call succeeded is
\* recorded with its response and its procedures are in the aggregate, in
\* the order of collection; the collecting loop can always go on, and when
\* every call failed or succeeded the extraction does not end in an error.
C1_FailuresStayInTheirChunk ==
    LET outcomes == [c \in Chunks |-> CallOutcome(provider_reply[c])]
    IN  /\ Len(chunk_results) = Cardinality(Collected)
        /\ \A c \in Collected :
               \E i \in 1..Len(chunk_results) : chunk_results[i].chunk_num = c
        /\ \A i \in 1..Len(chunk_results) :
               LET outcome == outcomes[chunk_results[i].chunk_num]
               IN  /\ chunk_results[i].chunk_num \in Collected
                   /\ outcome.how = "failed"
                          => IsErrorRecord(chunk_results[i].result)
                   /\ outcome.how = "succeeded"
                          => chunk_results[i].result = outcome.val
        /\ all_procedures = Contributions(chunk_results, outcomes)
        /\ pc = "collecting" => CanProceed
        /\ (\A c \in Chunks : outcomes[c].how \in {"failed", "succeeded"})
               => pc # "failed"

\* a time-out, an empty response and a malformed response in three chunks,
\* procedures from a fourth, and the extraction finished
C1_Witness ==
    /\ pc = "deduplicated"
    /\ \E a, b, c, d \in Chunks :
           /\ provider_reply[a] = ErrorReply(TimeoutText)
           /\ provider_reply[b] = EmptyReply
           /\ provider_reply[c].kind = "text"
           /\ ~JsonLoads(provider_reply[c].text).ok
           /\ CallSucceeded(provider_reply[d])
           /\ all_procedures = ResponseProcedures(provider_reply[d].text)
    /\ unique_procedures # <<>>

(***************************************************************************)
(* Properties of the dedup-and-cap step                                    *)
(***************************************************************************)

TitleOf(proc) == NormalizedTitle(DictGet(proc, KeyTitle, JStr(<<>>)).v)

Titles(procs) == [i \in 1..Len(procs) |-> TitleOf(procs[i])]

TitleSet(procs) == {TitleOf(procs[i]) : i \in 1..Len(procs)} \ {<<>>}

\* C6: the result of the dedup step has at most 25 procedures, and it is
\* the first 25 (or all, when fewer) procedures with a new non-empty title,
\* in aggregation order; every title met after that is absent.
C6_FirstTwentyFiveInOrder ==
    pc \in {"deduplicated", "rerun"}
        => LET titles == Titles(all_procedures)
               firsts == {i \in 1..Len(titles) :
                             /\ titles[i] # <<>>
                             /\ \A j \in 1..(i - 1) : titles[j] # titles[i]}
               rank == [i \in firsts |-> Cardinality({j \in firsts : j <= i})]
               kept == {i \in firsts : rank[i] <= 25}
           IN  /\ Len(unique_procedures) <= 25
               /\ Len(unique_procedures) = Cardinality(kept)
               /\ \A i \in kept : unique_procedures[rank[i]] = all_procedures[i]

\* more than 25 distinct titles arrived, 25 procedures were kept and the
\* title that arrived last is not among them
C6_Witness ==
    /\ pc = "deduplicated"
    /\ Cardinality(TitleSet(all_procedures)) > 25
    /\ Len(unique_procedures) = 25
    /\ TitleOf(all_procedures[Len(all_procedures)])
           \notin TitleSet(unique_procedures)

\* C7: the dedup step applied to its own output returns that output, with
\* the same procedures in the same order.
C7_DedupIdempotent ==
    pc = "rerun" => rerun_procedures = unique_procedures

\* the first run dropped procedures and kept several; the second run is done
C7_Witness ==
    /\ pc = "rerun"
    /\ Len(unique_procedures) >= 2
    /\ Len(unique_procedures) < Len(all_procedures)
    /\ rerun_procedures = unique_procedures

\* the procedures of all results, chunk by chunk in submission order
RECURSIVE SubmissionOrder(_)
SubmissionOrder(c) ==
    IF c > NumChunks THEN <<>>
    ELSE PyIter(DictGet(future_result[c].value, KeyProcedures, JArr(<<>>)))
             \o SubmissionOrder(c + 1)

\* C8 as stated: the set of normalized titles of the deduplicated list is
\* the one any completion order gives, so the one of the submission order.
C8_TitleSetIndependentOfOrder ==
    pc = "deduplicated"
        => TitleSet(unique_procedures)
               = TitleSet(Deduplicate(SubmissionOrder(1)).value)

\* C8, amended: the deduplicated list holds titles of the results only, as
\* many as there are up to 25; so with at most 25 distinct titles in the
\* results its title set is all of them, whatever the completion order.
C8_TitleSetUpToCap ==
    pc = "deduplicated"
        => LET kept == TitleSet(unique_procedures)
               all == TitleSet(SubmissionOrder(1))
           IN  /\ kept \subseteq all
               /\ Cardinality(kept) = IF Cardinality(all) <= 25
                                      THEN Cardinality(all)
                                      ELSE 25

\* results sharing titles, fewer than 25 in all, collected with the first
\* chunk last: every title is in the list
C8_Witness ==
    /\ pc = "deduplicated"
    /\ chunk_results[Len(chunk_results)].chunk_num = 1
    /\ Len(unique_procedures) < Len(all_procedures)
    /\ LET all == TitleSet(SubmissionOrder(1))
       IN  /\ Cardinality(all) > 7
           /\ Cardinality(all) <= 25
           /\ TitleSet(unique_procedures) = all

(***************************************************************************)
(* PDFParser, python-sidecar/app/parser.py.  A page is what pdfplumber and *)
(* the OCR engine give for it: whether it has character records, what      *)
(* extract_text() returns (None, a string, or an exception), what the OCR  *)
(* of its image returns, and the tables extract_tables() finds.            *)
(***************************************************************************)

Broken == [k |-> "raises"]

BoundingBox(x0, y0, x1, y1) == [x0 |-> x0, y0 |-> y0, x1 |-> x1, y1 |-> y1]

\* line 254: confidence=0.8, in hundredths
OcrConfidence == 80

NoConfidence == -1

\* lines 157-169
TextElement(page, page_number, text) ==
    [ page |-> page_number,
      element_type |-> "text",
      content |-> text,
      bbox |-> BoundingBox(0, 0, page.width, page.height),
      has_text_layer |-> TRUE,
      ocr_used |-> FALSE,
      confidence |-> NoConfidence ]

\* lines 242-255
OcrElement(page, page_number, ocr_text) ==
    [ page |-> page_number,
      element_type |-> "ocr",
      content |-> ocr_text,
      bbox |-> BoundingBox(0, 0, page.width, page.height),
      has_text_layer |-> FALSE,
      ocr_used |-> TRUE,
      confidence |-> OcrConfidence ]

\* value or ""
OrEmpty(value) == IF value.k = "str" THEN value.v ELSE <<>>

\* _extract_text_elements without the test of line 153
ExtractTextElementsKeepsEmpty(page, page_number) ==
    IF page.text = Broken THEN Raises
    ELSE Returns(<<TextElement(page, page_number, Strip(OrEmpty(page.text)))>>)

\* _extract_text_elements, lines 145-173
ExtractTextElements(page, page_number) ==
    IF page.text = Broken THEN Raises
    ELSE LET text == Strip(OrEmpty(page.text))
         IN  IF text = <<>> THEN Returns(<<>>)
             ELSE Returns(<<TextElement(page, page_number, text)>>)

\* _extract_ocr_elements, lines 224-266: rendering or recognition raising,
\* as it does without the engine, is caught
ExtractOcrElements(page, page_number, engine_available) ==
    IF ~engine_available \/ page.ocr = Broken THEN <<>>
    ELSE LET ocr_text == Strip(OrEmpty(page.ocr))
         IN  IF ocr_text = <<>> THEN <<>>
             ELSE <<OcrElement(page, page_number, ocr_text)>>

\* lines 192-210: the cells of a row from column col_idx on
RECURSIVE RowCells(_, _, _)
RowCells(row, row_idx, col_idx) ==
    IF col_idx >= Len(row) THEN <<>>
    ELSE LET cell_text == row[col_idx + 1]
             rest == RowCells(row, row_idx, col_idx + 1)
         IN  IF cell_text.k = "str" /\ Strip(cell_text.v) # <<>>
             THEN << [ text |-> Strip(cell_text.v),
                       bbox |-> BoundingBox(col_idx * 100, row_idx * 50,
                                            (col_idx + 1) * 100,
                                            (row_idx + 1) * 50),
                       row |-> row_idx,
                       col |-> col_idx ] >> \o rest
             ELSE rest

\* lines 191-210: the cells of the rows from row_idx on
RECURSIVE TableCells(_, _)
TableCells(table_data, row_idx) ==
    IF row_idx >= Len(table_data) THEN <<>>
    ELSE RowCells(table_data[row_idx + 1], row_idx, 0)
             \o TableCells(table_data, row_idx + 1)

\* lines 182-220: the tables from index table_idx on
RECURSIVE TablesFrom(_, _, _)
TablesFrom(page, page_number, table_idx) ==
    IF table_idx >= Len(page.tables) THEN <<>>
    ELSE LET table_data == page.tables[table_idx + 1].data
             cells == TableCells(table_data, 0)
             rest == TablesFrom(page, page_number, table_idx + 1)
         IN  IF table_data = <<>> \/ cells = <<>> THEN rest
             ELSE << [ table_id |-> <<page_number, table_idx>>,
                       page |-> page_number,
                       bbox |-> page.tables[table_idx + 1].bbox,
                       cells |-> cells,
                       rows |-> Len(table_data),
                       cols |-> Len(table_data[1]) ] >> \o rest

\* _extract_tables, lines 175-222
ExtractTables(page, page_number) ==
    IF page.tables_raise THEN Raises
    ELSE Returns(TablesFrom(page, page_number, 0))

\* line 72, with OCR tried whenever it is enabled
FallsBackToOcrAlways(text_elements, enabled) == enabled

\* line 72
FallsBackToOcr(text_elements, enabled) == text_elements = <<>> /\ enabled

\* line 88, with the engine alone deciding
OcrOfImagePageIgnoresOption(enabled, engine_available) == engine_available

\* line 88
OcrOfImagePage(enabled, engine_available) == enabled /\ engine_available

\* a page without text layer that is read by OCR and not counted as parsed
ImagePageCountsOcrOnly == [parsed |-> 0, ocr |-> 1]

\* lines 90-91: pages_ocr += 1 and pages_parsed += 1
ImagePageCounts == [parsed |-> 1, ocr |-> 1]

PageFailed(ocr_called) ==
    [ raised |-> TRUE, elements |-> <<>>, tables |-> <<>>, parsed |-> 0,
      ocr |-> 0, ocr_called |-> ocr_called ]

\* lines 59-94, one turn of the page loop: what the page adds to the lists
\* and the counters, or that it raised
PageTurn(page, page_number) ==
    IF page.has_chars
    THEN LET text_out == ExtractTextElements(page, page_number)
         IN  IF text_out.raised THEN PageFailed(FALSE)
             ELSE LET fallback == FallsBackToOcr(text_out.value, ocr_enabled)
                      ocr_elements ==
                          IF fallback
                          THEN ExtractOcrElements(page, page_number,
                                                  tesseract_available)
                          ELSE <<>>
                      table_out == IF extract_tables
                                   THEN ExtractTables(page, page_number)
                                   ELSE Returns(<<>>)
                  IN  IF table_out.raised THEN PageFailed(fallback)
                      ELSE [ raised |-> FALSE,
                             elements |-> text_out.value \o ocr_elements,
                             tables |-> table_out.value,
                             parsed |-> 1,
                             ocr |-> IF fallback THEN 1 ELSE 0,
                             ocr_called |-> fallback ]
    ELSE IF OcrOfImagePage(ocr_enabled, tesseract_available)
         THEN [ raised |-> FALSE,
                elements |-> ExtractOcrElements(page, page_number,
                                                tesseract_available),
                tables |-> <<>>,
                parsed |-> ImagePageCounts.parsed,
                ocr |-> ImagePageCounts.ocr,
                ocr_called |-> TRUE ]
         ELSE [ raised |-> FALSE, elements |-> <<>>, tables |-> <<>>,
                parsed |-> 0, ocr |-> 0, ocr_called |-> FALSE ]

\* lines 48-57 and 125-127: the content is opened, or parse_pdf raises
ParseOpen ==
    /\ parse_pc = "called"
    /\ IF content_opens
       THEN /\ pages_total' = Len(pdf_pages)
            /\ parse_pc' = "pages"
       ELSE /\ pages_total' = pages_total
            /\ parse_pc' = "raised"
    /\ UNCHANGED <<content_opens, pdf_pages, extract_tables, ocr_enabled,
                   tesseract_available, page_num, pages_parsed, pages_ocr,
                   tables_found, elements, tables, ocr_calls>>
    /\ UNCHANGED <<recVars, dipVars, pipeVars, callVars, packetVars>>

\* lines 59-94: the next page; an exception ends parse_pdf at lines 125-127
ParsePage ==
    /\ parse_pc = "pages"
    /\ page_num < pages_total
    /\ page_num' = page_num + 1
    /\ LET turn == PageTurn(pdf_pages[page_num + 1], page_num + 1)
       IN  /\ elements' = elements \o turn.elements
           /\ tables' = tables \o turn.tables
           /\ tables_found' = tables_found + Len(turn.tables)
           /\ pages_parsed' = pages_parsed + turn.parsed
           /\ pages_ocr' = pages_ocr + turn.ocr
           /\ ocr_calls' = IF turn.ocr_called
                           THEN Append(ocr_calls, page_num + 1)
                           ELSE ocr_calls
           /\ parse_pc' = IF turn.raised THEN "raised" ELSE "pages"
    /\ UNCHANGED <<content_opens, pdf_pages, extract_tables, ocr_enabled,
                   tesseract_available, pages_total>>
    /\ UNCHANGED <<recVars, dipVars, pipeVars, callVars, packetVars>>

\* lines 96-123: the response is built from the lists and the counters
ParseReturn ==
    /\ parse_pc = "pages"
    /\ page_num = pages_total
    /\ parse_pc' = "returned"
    /\ UNCHANGED <<content_opens, pdf_pages, extract_tables, ocr_enabled,
                   tesseract_available, page_num, pages_total, pages_parsed,
                   pages_ocr, tables_found, elements, tables, ocr_calls>>
    /\ UNCHANGED <<recVars, dipVars, pipeVars, callVars, packetVars>>

(***************************************************************************)
(* Documents: pages of a few kinds, in every order                         *)
(***************************************************************************)

MaxPages == 3

NoTables == <<>>

\* a table of two rows: a header with a blank cell, and a row with a
\* missing cell
SmallTable ==
    [ bbox |-> BoundingBox(10, 20, 300, 120),
      data |-> << <<JStr(<<"M","o","d","e">>), JStr(<<" ">>)>>,
                  <<JNull, JStr(<<" ","O","n"," ">>)>> >> ]

PressureText ==
    <<"P","r","e","s","s","u","r","e",":"," ","4","5"," ","p","s","i">>

Page(has_chars, text, ocr, page_tables, tables_raise, width, height) ==
    [ has_chars |-> has_chars, text |-> text, ocr |-> ocr,
      tables |-> page_tables, tables_raise |-> tables_raise,
      width |-> width, height |-> height ]

\* a text layer with text
TextPage == Page(TRUE, JStr(PressureText), JStr(<<"x">>), NoTables, FALSE, 612, 792)

\* a text layer with text inside blanks, and a table
PaddedTextPage ==
    Page(TRUE, JStr(<<" ","a","b","\n">>), JStr(<<"x">>), <<SmallTable>>,
         FALSE, 792, 612)

\* a text layer of blanks only; the OCR reads text
BlankTextPage ==
    Page(TRUE, JStr(<<" ","\n">>), JStr(<<"o","c","r","\n">>), NoTables,
         FALSE, 612, 792)

\* a text layer that gives no text; the OCR reads nothing; a table
NoTextPage == Page(TRUE, JNull, JStr(<<" ">>), <<SmallTable>>, FALSE, 612, 792)

\* no text layer; the OCR reads text
ScannedPage == Page(FALSE, JNull, JStr(<<"s","c","a","n">>), NoTables, FALSE, 612, 792)

\* no text layer; the OCR reads nothing
ScannedBlankPage == Page(FALSE, JNull, JStr(<<>>), NoTables, FALSE, 612, 792)

\* no text layer; the page cannot be rendered
ScannedBrokenPage == Page(FALSE, JNull, Broken, NoTables, FALSE, 612, 792)

\* a text layer whose extraction raises
BrokenTextPage == Page(TRUE, Broken, JStr(<<"x">>), NoTables, FALSE, 612, 792)

\* a text layer with text; the table extraction raises
BrokenTablePage ==
    Page(TRUE, JStr(<<"a","b">>), JStr(<<"x">>), NoTables, TRUE, 612, 792)

PageKinds ==
    { TextPage, PaddedTextPage, BlankTextPage, NoTextPage, ScannedPage,
      ScannedBlankPage, ScannedBrokenPage, BrokenTextPage, BrokenTablePage }

Documents == UNION {[1..n -> PageKinds] : n \in 0..MaxPages}

InitParse ==
    /\ RecoverIdle
    /\ DipIdle
    /\ PipeIdle
    /\ CallIdle
    /\ PacketIdle
    /\ pdf_pages \in Documents
    /\ content_opens \in BOOLEAN
    /\ content_opens \/ pdf_pages = <<>>
    /\ extract_tables \in BOOLEAN
    /\ ocr_enabled \in BOOLEAN
    /\ tesseract_available \in BOOLEAN
    /\ page_num = 0
    /\ pages_total = 0
    /\ pages_parsed = 0
    /\ pages_ocr = 0
    /\ tables_found = 0
    /\ elements = <<>>
    /\ tables = <<>>
    /\ ocr_calls = <<>>
    /\ parse_pc = "called"

NextParse ==
    \/ ParseOpen
    \/ ParsePage
    \/ ParseReturn

SpecParse == InitParse /\ [][NextParse]_vars

(***************************************************************************)
(* Properties of the page loop                                             *)
(***************************************************************************)

\* the page the step has just gone through, when it is a step of the loop
\* that did not raise
TurnedPage == pdf_pages[page_num']

PageTurned == parse_pc = "pages" /\ page_num' = page_num + 1 /\ parse_pc' = "pages"

ElementsOfPage(n) == SelectSeq(elements, LAMBDA e : e.page = n)

C10_ImagePageSkippedWithoutOcr ==
    [][ ( /\ parse_pc = "pages"
          /\ page_num' = page_num + 1
          /\ ~TurnedPage.has_chars
          /\ ~ocr_enabled )
        => /\ parse_pc' = "pages"
           /\ elements' = elements
           /\ tables' = tables
           /\ tables_found' = tables_found
           /\ pages_parsed' = pages_parsed
           /\ pages_ocr' = pages_ocr
           /\ ocr_calls' = ocr_calls ]_vars

\* a text page and a scanned page were parsed with OCR disabled and the
\* engine installed: the response has the text page's element only and
\* counts one page
C10_Witness ==
    /\ parse_pc = "returned"
    /\ ~ocr_enabled /\ tesseract_available
    /\ pages_total = 2
    /\ pdf_pages[1] = TextPage
    /\ pdf_pages[2] = ScannedPage
    /\ ElementsOfPage(2) = <<>>
    /\ Len(elements) = 1
    /\ pages_parsed = 1
    /\ pages_ocr = 0
    /\ ocr_calls = <<>>

\* the pages whose turn of the loop is over
TurnedPages == IF parse_pc = "raised" THEN {} ELSE 1..page_num

\* the text layer of the page gives no text
YieldsNoText(page) ==
    page.has_chars /\ page.text # Broken /\ Strip(OrEmpty(page.text)) = <<>>

\* C11: no element has empty content, and a page whose text layer yields an
\* empty string has, with OCR enabled, one element of type ocr or none, and
\* never an element of type text.
C11_NoEmptyContent ==
    /\ \A i \in 1..Len(elements) :
           /\ elements[i].content # <<>>
           /\ Strip(elements[i].content) # <<>>
    /\ \A n \in TurnedPages :
           (YieldsNoText(pdf_pages[n]) /\ ocr_enabled)
               => \/ ElementsOfPage(n) = <<>>
                  \/ /\ Len(ElementsOfPage(n)) = 1
                     /\ ElementsOfPage(n)[1].element_type = "ocr"

\* a page of blanks that the OCR reads and a page without text that the OCR
\* reads nothing from: one ocr element for the first, none for the second
C11_Witness ==
    /\ parse_pc = "returned"
    /\ ocr_enabled /\ tesseract_available
    /\ pages_total = 2
    /\ pdf_pages[1] = BlankTextPage
    /\ pdf_pages[2] = NoTextPage
    /\ Len(elements) = 1
    /\ elements[1].element_type = "ocr"
    /\ elements[1].page = 1
    /\ elements[1].content = <<"o","c","r">>

\* the page would need OCR: it has no text layer, or its text layer gives
\* no text
NeedsOcr(page) == ~page.has_chars \/ YieldsNoText(page)

\* C12: without the OCR engine, the turn of a page that would need OCR
\* does not raise, adds no element and adds nothing to pages_parsed.
C12_NeedingOcrNotCounted ==
    [][ ( /\ parse_pc = "pages"
          /\ page_num' = page_num + 1
          /\ ~tesseract_available
          /\ NeedsOcr(TurnedPage) )
        => /\ parse_pc' = "pages"
           /\ elements' = elements
           /\ pages_parsed' = pages_parsed ]_vars

\* C13: parse_pdf raises only when the content cannot be opened as a PDF.
C13_RaisesOnlyWhenUnopenable ==
    parse_pc = "raised" => ~content_opens

(***************************************************************************)
(* DIPProcessor._calculate_confidence, dip_processor.py lines 793-808.     *)
(* Confidences are in hundredths: 0.7 is 70.                               *)
(***************************************************************************)

\* the degree sign
Degree == "DEGREE"

\* line 805
ConfidenceUnits ==
    { <<"p","s","i">>, <<"v","o","l","t","s">>, <<Degree, "c">>,
      <<Degree, "f">>, <<"g","p","m">> }

\* lines 799-802 with the two tests in the other order
LengthBoostShortFirst(match_length) ==
    IF match_length > 10 THEN 5
    ELSE IF match_length > 20 THEN 10
    ELSE 0

\* lines 798-802
LengthBoost(match_length) ==
    IF match_length > 20 THEN 10
    ELSE IF match_length > 10 THEN 5
    ELSE 0

\* lines 805-806
UnitBoost(group0) ==
    IF \E unit \in ConfidenceUnits : PyContains(PyLower(group0), unit)
    THEN 10
    ELSE 0

\* min(a, b)
PyMin(a, b) == IF a <= b THEN a ELSE b

\* lines 793-808; group0 is match.group(0)
CalculateConfidence(group0) ==
    PyMin(70 + LengthBoost(Len(group0)) + UnitBoost(group0), 100)

(***************************************************************************)
(* _calculate_confidence called on matched texts of every length up to     *)
(* MaxPad and a little more, with and without a unit in them               *)
(***************************************************************************)

MaxPad == 22

Pad(n) == [i \in 1..n |-> "x"]

\* units as the patterns find them, in capitals, broken, and cut short
ConfidenceTokens ==
    ConfidenceUnits
        \cup { <<>>, <<"P","S","I">>, <<"p","s"," ","i">>, <<"v","o","l","t">>,
               <<Degree, "C">> }

MatchedTexts ==
    {Pad(n) \o token : n \in 0..MaxPad, token \in ConfidenceTokens}
        \cup {token \o Pad(n) : n \in 0..MaxPad, token \in ConfidenceTokens}

InitConfidence ==
    /\ RecoverIdle
    /\ DipIdle
    /\ PipeIdle
    /\ ParseIdle
    /\ PacketIdle
    /\ call_args \in MatchedTexts
    /\ call_result = <<>>
    /\ call_pc = "called"

CalculateConfidenceCall ==
    /\ call_pc = "called"
    /\ call_result' = CalculateConfidence(call_args)
    /\ call_pc' = "returned"
    /\ UNCHANGED call_args
    /\ UNCHANGED <<recVars, dipVars, pipeVars, parseVars, packetVars>>

NextConfidence == CalculateConfidenceCall

SpecConfidence == InitConfidence /\ [][NextConfidence]_vars

\* the text holds the unit, in small or capital letters
HoldsUnit(text, unit) ==
    \E i \in 1..(Len(text) - Len(unit) + 1) :
        \A k \in 1..Len(unit) : LowerChar(text[i + k - 1]) = unit[k]

\* C14: the confidence is 0.70, plus 0.10 for a matched text of more than
\* 20 characters or else 0.05 for one of more than 10, plus 0.10 when the
\* matched text holds one of psi, volts, degree c, degree f, gpm, and at
\* most 1.0; it lies between 0 and 1 and depends on the matched text only.
C14_ConfidenceOfMatchedText ==
    call_pc = "returned"
        => LET by_length == IF Len(call_args) > 20 THEN 10
                            ELSE IF Len(call_args) > 10 THEN 5
                            ELSE 0
               by_unit == IF \E unit \in ConfidenceUnits :
                                 HoldsUnit(call_args, unit)
                          THEN 10
                          ELSE 0
               sum == 70 + by_length + by_unit
           IN  /\ call_result = IF sum > 100 THEN 100 ELSE sum
               /\ call_result >= 0
               /\ call_result <= 100

\* a matched text of 21 characters that ends in psi has confidence 0.90
C14_Witness ==
    /\ call_pc = "returned"
    /\ call_args = Pad(18) \o <<"p","s","i">>
    /\ call_result = 90

(***************************************************************************)
(* _categorize_procedure called on titles of up to MaxWords words          *)
(***************************************************************************)

MaxWords == 2

TitleWords ==
    << <<"I","n","s","t","a","l","l">>,
       <<"S","t","a","r","t">>,
       <<"R","e","p","a","i","r">>,
       <<"D","i","a","g","n","o","s","e">>,
       <<"C","l","e","a","n">>,
       <<"I","n","s","p","e","c","t","i","o","n">>,
       <<"S","a","f","e","t","y">>,
       <<"W","a","r","n","i","n","g">>,
       <<"I","g","n","i","t","i","o","n">>,
       <<"F","i","l","t","e","r">>,
       <<"C","o","n","n","e","c","t","i","o","n">> >>

RECURSIVE JoinWords(_)
JoinWords(picked) ==
    IF picked = <<>> THEN <<>>
    ELSE IF Len(picked) = 1 THEN TitleWords[picked[1]]
    ELSE TitleWords[picked[1]] \o <<" ">> \o JoinWords(Tail(picked))

ProcedureTitles ==
    {JoinWords(picked) :
        picked \in UNION {[1..n -> 1..Len(TitleWords)] : n \in 0..MaxWords}}

InitCategorize ==
    /\ RecoverIdle
    /\ DipIdle
    /\ PipeIdle
    /\ ParseIdle
    /\ PacketIdle
    /\ call_args \in ProcedureTitles
    /\ call_result = <<>>
    /\ call_pc = "called"

CategorizeProcedureCall ==
    /\ call_pc = "called"
    /\ call_result' = CategorizeProcedure(call_args)
    /\ call_pc' = "returned"
    /\ UNCHANGED call_args
    /\ UNCHANGED <<recVars, dipVars, pipeVars, parseVars, packetVars>>

NextCategorize == CategorizeProcedureCall

SpecCategorize == InitCategorize /\ [][NextCategorize]_vars

\* the title, in small letters, holds one of the words
HoldsWord(title, words) ==
    \E w \in words : \E i \in 1..(Len(title) - Len(w) + 1) :
        \A k \in 1..Len(w) : LowerChar(title[i + k - 1]) = w[k]

StartStopPowerWords ==
    { <<"s","t","a","r","t">>, <<"s","t","o","p">>, <<"p","o","w","e","r">> }

\* C17: the category is one of the five; a title with a troubleshooting
\* keyword and no installation or start/stop/power keyword is
\* troubleshooting, one with a maintenance keyword and none of the sets
\* before is maintenance, one with a safety keyword and none of the sets
\* before is safety, and a title with no keyword is operation.
C17_CategoryOfFirstKeywordSet ==
    call_pc = "returned"
        => LET earlier == HoldsWord(call_args, InstallationWords)
                              \/ HoldsWord(call_args, StartStopPowerWords)
               trouble == HoldsWord(call_args, TroubleshootingWords)
               maintain == HoldsWord(call_args, MaintenanceWords)
               safe == HoldsWord(call_args, SafetyWords)
           IN  /\ call_result \in {"installation", "operation",
                                   "troubleshooting", "maintenance", "safety"}
               /\ HoldsWord(call_args, InstallationWords)
                      => call_result = "installation"
               /\ (~earlier /\ trouble) => call_result = "troubleshooting"
               /\ (~earlier /\ ~trouble /\ maintain)
                      => call_result = "maintenance"
               /\ (~earlier /\ ~trouble /\ ~maintain /\ safe)
                      => call_result = "safety"
               /\ (~earlier /\ ~trouble /\ ~maintain /\ ~safe)
                      => call_result = "operation"

(***************************************************************************)
(* The regular expressions of DIPProcessor, as re evaluates them.  A       *)
(* pattern is a tree of nodes; ReMatch walks it in the order of preference *)
(* of a backtracking engine (alternatives left to right, repetitions       *)
(* greedy), so the first way found is the match re reports.  All patterns  *)
(* are applied with re.IGNORECASE.  Characters outside ASCII are single    *)
(* named tokens.                                                           *)
(***************************************************************************)

Times == "TIMES"
WarningSign == "WARNING_SIGN"
VariationSelector == "VARIATION_SELECTOR"
WhiteSquare == "WHITE_SQUARE"
BallotBox == "BALLOT_BOX"
Bullet == "BULLET"

UpperSet ==
    {"A","B","C","D","E","F","G","H","I","J","K","L","M",
     "N","O","P","Q","R","S","T","U","V","W","X","Y","Z"}
LowerSet ==
    {"a","b","c","d","e","f","g","h","i","j","k","l","m",
     "n","o","p","q","r","s","t","u","v","w","x","y","z"}
Digits == {"0", "1", "2", "3", "4", "5", "6", "7", "8", "9"}

UpperChar(c) ==
    IF c \in LowerSet
    THEN UpperLetters[CHOOSE i \in 1..Len(LowerLetters) : LowerLetters[i] = c]
    ELSE c

Lit(word) == [t |-> "lit", word |-> word]
In(chars) == [t |-> "in", chars |-> chars]
Cat(parts) == [t |-> "cat", parts |-> parts]
Alt(parts) == [t |-> "alt", parts |-> parts]
Star(item) == [t |-> "star", parts |-> <<item>>]
Plus(item) == [t |-> "plus", parts |-> <<item>>]
Opt(item) == [t |-> "opt", parts |-> <<item>>]
Group(n, item) == [t |-> "group", n |-> n, parts |-> <<item>>]
GroupEnd(n, from) == [t |-> "close", n |-> n, from |-> from]

\* a compiled pattern: its tree and pattern.groups
Pattern(groups, tree) == [groups |-> groups, tree |-> tree]

NoSpan == <<-1, -1>>
NoMatch == [ok |-> FALSE, end |-> 0, spans |-> <<>>]

\* the two characters are the same but for the case of a letter
SameLetter(a, b) ==
    \/ a = b
    \/ a \in UpperSet /\ LowerChar(a) = b
    \/ b \in UpperSet /\ LowerChar(b) = a

\* the literal word stands in text at the 0-based position pos, whatever
\* the case of the letters
LitAt(text, word, pos) ==
    /\ pos + Len(word) <= Len(text)
    /\ \A k \in 1..Len(word) : SameLetter(text[pos + k], word[k])

\* the character is in the set, whatever its case
CharIn(c, chars) ==
    \/ c \in chars
    \/ c \in UpperSet /\ LowerChar(c) \in chars
    \/ c \in LowerSet /\ UpperChar(c) \in chars

\* how many characters of text from the 0-based position pos on are in chars
RunLength(text, chars, pos) ==
    LET stops == {i \in (pos + 1)..Len(text) : ~CharIn(text[i], chars)}
    IN  IF stops = {} THEN Len(text) - pos
        ELSE (CHOOSE i \in stops : \A j \in stops : i <= j) - pos - 1

RECURSIVE ReMatch(_, _, _, _)
RECURSIVE ReAlt(_, _, _, _, _, _)
RECURSIVE ReRun(_, _, _, _, _, _)

\* the first way in which the nodes of todo, one after the other, match
\* text from the 0-based position pos on
ReMatch(text, todo, pos, spans) ==
    IF todo = <<>> THEN [ok |-> TRUE, end |-> pos, spans |-> spans]
    ELSE LET node == Head(todo)
             rest == Tail(todo)
         IN  CASE node.t = "lit" ->
                     IF LitAt(text, node.word, pos)
                     THEN ReMatch(text, rest, pos + Len(node.word), spans)
                     ELSE NoMatch
               [] node.t = "in" ->
                     IF pos < Len(text) /\ CharIn(text[pos + 1], node.chars)
                     THEN ReMatch(text, rest, pos + 1, spans)
                     ELSE NoMatch
               [] node.t = "cat" ->
                     ReMatch(text, node.parts \o rest, pos, spans)
               [] node.t = "alt" ->
                     ReAlt(text, node.parts, 1, rest, pos, spans)
               [] node.t = "star" /\ node.parts[1].t = "in" ->
                     ReRun(text, node.parts[1].chars, 0, rest, pos, spans)
               [] node.t = "plus" /\ node.parts[1].t = "in" ->
                     ReRun(text, node.parts[1].chars, 1, rest, pos, spans)
               [] node.t = "star" ->
                     LET more == ReMatch(text, <<node.parts[1], node>> \o rest,
                                         pos, spans)
                     IN  IF more.ok THEN more
                         ELSE ReMatch(text, rest, pos, spans)
               [] node.t = "plus" ->
                     ReMatch(text,
                             <<node.parts[1], Star(node.parts[1])>> \o rest,
                             pos, spans)
               [] node.t = "opt" ->
                     LET with == ReMatch(text, <<node.parts[1]>> \o rest,
                                         pos, spans)
                     IN  IF with.ok THEN with
                         ELSE ReMatch(text, rest, pos, spans)
               [] node.t = "group" ->
                     ReMatch(text,
                             <<node.parts[1], GroupEnd(node.n, pos)>> \o rest,
                             pos, spans)
               [] node.t = "close" ->
                     ReMatch(text, rest, pos,
                             [spans EXCEPT ![node.n] = <<node.from, pos>>])

\* a greedy repetition of one character set, at least `least` times: the
\* longest run after which the rest matches
ReRun(text, chars, least, rest, pos, spans) ==
    LET most == RunLength(text, chars, pos)
        tried == [k \in least..most |-> ReMatch(text, rest, pos + k, spans)]
        fits == {k \in least..most : tried[k].ok}
    IN  IF fits = {} THEN NoMatch
        ELSE tried[CHOOSE k \in fits : \A other \in fits : other <= k]

ReAlt(text, branches, b, rest, pos, spans) ==
    IF b > Len(branches) THEN NoMatch
    ELSE LET this == ReMatch(text, <<branches[b]>> \o rest, pos, spans)
         IN  IF this.ok THEN this
             ELSE ReAlt(text, branches, b + 1, rest, pos, spans)

\* a match object: start(), end() and the spans of its groups
Match(start, end, spans) == [start |-> start, end |-> end, spans |-> spans]

\* what the pattern matches at each position of the text: the entry p + 1
\* is the match that starts at the 0-based position p
MatchesAt(pattern, text) ==
    SubSeq([q \in 1..(Len(text) + 1) |->
                ReMatch(text, <<pattern.tree>>, q - 1,
                        [g \in 1..pattern.groups |-> NoSpan])],
           1, Len(text) + 1)

\* the scan from the 0-based position from on: the leftmost position with
\* a match yields it, and the scan goes on where the match ended, or one
\* further when it is empty
RECURSIVE ScanFrom(_, _)
ScanFrom(tried, from) ==
    LET hits == {p \in from..(Len(tried) - 1) : tried[p + 1].ok}
    IN  IF hits = {} THEN <<>>
        ELSE LET p == CHOOSE h \in hits : \A other \in hits : h <= other
                 m == tried[p + 1]
             IN  <<Match(p, m.end, m.spans)>>
                     \o ScanFrom(tried, IF m.end > p THEN m.end ELSE p + 1)

\* re.finditer(pattern, text, re.IGNORECASE), as a list
FindIter(pattern, text, from) == ScanFrom(MatchesAt(pattern, text), from)

\* match.group(0)
Group0(text, m) == PySlice(text, m.start, m.end)

\* match.group(n) is None
GroupIsNone(m, n) == m.spans[n] = NoSpan

\* match.group(n) of a group that took part in the match
GroupText(text, m, n) == PySlice(text, m.spans[n][1], m.spans[n][2])


\* [CF]
CelsiusFahrenheit ==
    {"C","F"}

\* [A-Za-z]
Letters ==
    {"A","B","C","D","E","F","G","H","I","J","K","L","M","N","O","P","Q",
     "R","S","T","U","V","W","X","Y","Z","a","b","c","d","e","f","g","h",
     "i","j","k","l","m","n","o","p","q","r","s","t","u","v","w","x","y",
     "z"}

\* [A-Z0-9\s-.]
ModelChars ==
    {"A","B","C","D","E","F","G","H","I","J","K","L","M","N","O","P","Q",
     "R","S","T","U","V","W","X","Y","Z","0","1","2","3","4","5","6","7",
     "8","9"," ","\n","-","."}

\* [A-Za-z\s&.,-]
NameChars ==
    {"A","B","C","D","E","F","G","H","I","J","K","L","M","N","O","P","Q",
     "R","S","T","U","V","W","X","Y","Z","a","b","c","d","e","f","g","h",
     "i","j","k","l","m","n","o","p","q","r","s","t","u","v","w","x","y",
     "z"," ","\n","&",".",",","-"}

\* [0-9.]
NumberChars ==
    {"0","1","2","3","4","5","6","7","8","9","."}

\* [0-9.\s]
SpacedNumberChars ==
    {"0","1","2","3","4","5","6","7","8","9","."," ","\n"}

\* [A-Za-z%Degree]
UnitChars ==
    {"A","B","C","D","E","F","G","H","I","J","K","L","M","N","O","P","Q",
     "R","S","T","U","V","W","X","Y","Z","a","b","c","d","e","f","g","h",
     "i","j","k","l","m","n","o","p","q","r","s","t","u","v","w","x","y",
     "z","%",Degree}

\* [A-Za-z0-9\s-.!]
WarningChars ==
    {"A","B","C","D","E","F","G","H","I","J","K","L","M","N","O","P","Q",
     "R","S","T","U","V","W","X","Y","Z","a","b","c","d","e","f","g","h",
     "i","j","k","l","m","n","o","p","q","r","s","t","u","v","w","x","y",
     "z","0","1","2","3","4","5","6","7","8","9"," ","\n","-",".","!"}

\* [A-Za-z0-9\s-.]
WordChars ==
    {"A","B","C","D","E","F","G","H","I","J","K","L","M","N","O","P","Q",
     "R","S","T","U","V","W","X","Y","Z","a","b","c","d","e","f","g","h",
     "i","j","k","l","m","n","o","p","q","r","s","t","u","v","w","x","y",
     "z","0","1","2","3","4","5","6","7","8","9"," ","\n","-","."}

\* lines 26-67: self.entity_patterns
EntityPatterns ==
    <<
      [ type |-> "manufacturer",
        patterns |-> <<
          \* line 28: (?:manufacturer|made by|produced by|brand):\s*([A-Za-z\s&.,-]+)
          Pattern(1,
              Cat(<<Alt(<<Lit(<<"m","a","n","u","f","a","c","t","u","r","e","r">>),
                  Lit(<<"m","a","d","e"," ","b","y">>),
                  Lit(<<"p","r","o","d","u","c","e","d"," ","b","y">>),
                  Lit(<<"b","r","a","n","d">>)>>), Lit(<<":">>),
                  Star(In(Whitespace)), Group(1, Plus(In(NameChars)))>>)),
          \* line 29: ([A-Za-z\s&.,-]+)\s+(?:inc\.|corp\.|ltd\.|llc\.|company|co\.)
          Pattern(1,
              Cat(<<Group(1, Plus(In(NameChars))), Plus(In(Whitespace)),
                  Alt(<<Lit(<<"i","n","c",".">>),
                  Lit(<<"c","o","r","p",".">>), Lit(<<"l","t","d",".">>),
                  Lit(<<"l","l","c",".">>),
                  Lit(<<"c","o","m","p","a","n","y">>),
                  Lit(<<"c","o",".">>)>>)>>)),
          \* line 30: ([A-Za-z\s&.,-]+)\s+(?:technologies|systems|equipment|machinery)
          Pattern(1,
              Cat(<<Group(1, Plus(In(NameChars))), Plus(In(Whitespace)),
                  Alt(<<Lit(<<"t","e","c","h","n","o","l","o","g","i","e","s">>),
                  Lit(<<"s","y","s","t","e","m","s">>),
                  Lit(<<"e","q","u","i","p","m","e","n","t">>),
                  Lit(<<"m","a","c","h","i","n","e","r","y">>)>>)>>)),
          \* line 31: ([A-Za-z\s&.,-]+)\s+(?:grill|oven|furnace|heater|burner)
          Pattern(1,
              Cat(<<Group(1, Plus(In(NameChars))), Plus(In(Whitespace)),
                  Alt(<<Lit(<<"g","r","i","l","l">>),
                  Lit(<<"o","v","e","n">>),
                  Lit(<<"f","u","r","n","a","c","e">>),
                  Lit(<<"h","e","a","t","e","r">>),
                  Lit(<<"b","u","r","n","e","r">>)>>)>>)) >> ],
      [ type |-> "model",
        patterns |-> <<
          \* line 34: (?:model|part number|pn|part no|sku):\s*([A-Z0-9\s\-\.]+)
          Pattern(1,
              Cat(<<Alt(<<Lit(<<"m","o","d","e","l">>),
                  Lit(<<"p","a","r","t"," ","n","u","m","b","e","r">>),
                  Lit(<<"p","n">>), Lit(<<"p","a","r","t"," ","n","o">>),
                  Lit(<<"s","k","u">>)>>), Lit(<<":">>),
                  Star(In(Whitespace)), Group(1, Plus(In(ModelChars)))>>)),
          \* line 35: model\s+([A-Z0-9\s\-\.]+)
          Pattern(1,
              Cat(<<Lit(<<"m","o","d","e","l">>), Plus(In(Whitespace)),
                  Group(1, Plus(In(ModelChars)))>>)),
          \* line 36: (?:series|type|version):\s*([A-Z0-9\s\-\.]+)
          Pattern(1,
              Cat(<<Alt(<<Lit(<<"s","e","r","i","e","s">>),
                  Lit(<<"t","y","p","e">>),
                  Lit(<<"v","e","r","s","i","o","n">>)>>), Lit(<<":">>),
                  Star(In(Whitespace)), Group(1, Plus(In(ModelChars)))>>)),
          \* line 37: ([A-Z0-9\s\-\.]+)\s+(?:model|series|type)
          Pattern(1,
              Cat(<<Group(1, Plus(In(ModelChars))), Plus(In(Whitespace)),
                  Alt(<<Lit(<<"m","o","d","e","l">>),
                  Lit(<<"s","e","r","i","e","s">>),
                  Lit(<<"t","y","p","e">>)>>)>>)) >> ],
      [ type |-> "specification",
        patterns |-> <<
          \* line 40: (?:spec|specification|rating):\s*([A-Za-z0-9\s\-\.]+)
          Pattern(1,
              Cat(<<Alt(<<Lit(<<"s","p","e","c">>),
                  Lit(<<"s","p","e","c","i","f","i","c","a","t","i","o","n">>),
                  Lit(<<"r","a","t","i","n","g">>)>>), Lit(<<":">>),
                  Star(In(Whitespace)), Group(1, Plus(In(WordChars)))>>)),
          \* line 41: (?:rated|nominal|maximum|minimum|max|min):\s*([0-9\.\s]+)\s*([A-Za-z]+)
          Pattern(2,
              Cat(<<Alt(<<Lit(<<"r","a","t","e","d">>),
                  Lit(<<"n","o","m","i","n","a","l">>),
                  Lit(<<"m","a","x","i","m","u","m">>),
                  Lit(<<"m","i","n","i","m","u","m">>), Lit(<<"m","a","x">>),
                  Lit(<<"m","i","n">>)>>), Lit(<<":">>),
                  Star(In(Whitespace)), Group(1,
                  Plus(In(SpacedNumberChars))), Star(In(Whitespace)),
                  Group(2, Plus(In(Letters)))>>)),
          \* line 42: (?:capacity|output|input|power):\s*([0-9\.\s]+)\s*([A-Za-z]+)
          Pattern(2,
              Cat(<<Alt(<<Lit(<<"c","a","p","a","c","i","t","y">>),
                  Lit(<<"o","u","t","p","u","t">>),
                  Lit(<<"i","n","p","u","t">>),
                  Lit(<<"p","o","w","e","r">>)>>), Lit(<<":">>),
                  Star(In(Whitespace)), Group(1,
                  Plus(In(SpacedNumberChars))), Star(In(Whitespace)),
                  Group(2, Plus(In(Letters)))>>)),
          \* line 43: (?:dimensions|size|measurements):\s*([0-9\.\s]+)\s*(?:x|by|Times)\s*([0-9\.\s]+)
          Pattern(2,
              Cat(<<Alt(<<Lit(<<"d","i","m","e","n","s","i","o","n","s">>),
                  Lit(<<"s","i","z","e">>),
                  Lit(<<"m","e","a","s","u","r","e","m","e","n","t","s">>)>>),
                  Lit(<<":">>), Star(In(Whitespace)), Group(1,
                  Plus(In(SpacedNumberChars))), Star(In(Whitespace)),
                  Alt(<<Lit(<<"x">>), Lit(<<"b","y">>), Lit(<<Times>>)>>),
                  Star(In(Whitespace)), Group(2,
                  Plus(In(SpacedNumberChars)))>>)) >> ],
      [ type |-> "warning",
        patterns |-> <<
          \* line 46: (?:warning|caution|danger|note|important|attention):\s*([A-Za-z0-9\s\-\.!]+)
          Pattern(1,
              Cat(<<Alt(<<Lit(<<"w","a","r","n","i","n","g">>),
                  Lit(<<"c","a","u","t","i","o","n">>),
                  Lit(<<"d","a","n","g","e","r">>), Lit(<<"n","o","t","e">>),
                  Lit(<<"i","m","p","o","r","t","a","n","t">>),
                  Lit(<<"a","t","t","e","n","t","i","o","n">>)>>),
                  Lit(<<":">>), Star(In(Whitespace)), Group(1,
                  Plus(In(WarningChars)))>>)),
          \* line 47: WarningSignVariationSelector\s*([A-Za-z0-9\s\-\.!]+)
          Pattern(1,
              Cat(<<Lit(<<WarningSign,VariationSelector>>),
                  Star(In(Whitespace)), Group(1, Plus(In(WarningChars)))>>)),
          \* line 48: (?:do not|never|avoid|prevent):\s*([A-Za-z0-9\s\-\.!]+)
          Pattern(1,
              Cat(<<Alt(<<Lit(<<"d","o"," ","n","o","t">>),
                  Lit(<<"n","e","v","e","r">>), Lit(<<"a","v","o","i","d">>),
                  Lit(<<"p","r","e","v","e","n","t">>)>>), Lit(<<":">>),
                  Star(In(Whitespace)), Group(1, Plus(In(WarningChars)))>>)),
          \* line 49: (?:hot surface|high temperature|electrical hazard):\s*([A-Za-z0-9\s\-\.!]+)
          Pattern(1,
              Cat(<<Alt(<<Lit(<<"h","o","t"," ","s","u","r","f","a","c","e">>),
                  Lit(<<"h","i","g","h"," ","t","e","m","p","e","r","a","t","u","r","e">>),
                  Lit(<<"e","l","e","c","t","r","i","c","a","l"," ","h","a","z","a","r","d">>)>>),
                  Lit(<<":">>), Star(In(Whitespace)), Group(1,
                  Plus(In(WarningChars)))>>)) >> ],
      [ type |-> "procedure",
        patterns |-> <<
          \* line 52: (?:step|procedure|instruction|operation):\s*([0-9]+)\.?\s*([A-Za-z0-9\s\-\.]+)
          Pattern(2,
              Cat(<<Alt(<<Lit(<<"s","t","e","p">>),
                  Lit(<<"p","r","o","c","e","d","u","r","e">>),
                  Lit(<<"i","n","s","t","r","u","c","t","i","o","n">>),
                  Lit(<<"o","p","e","r","a","t","i","o","n">>)>>),
                  Lit(<<":">>), Star(In(Whitespace)), Group(1,
                  Plus(In(Digits))), Opt(Lit(<<".">>)), Star(In(Whitespace)),
                  Group(2, Plus(In(WordChars)))>>)),
          \* line 53: (?:to|for|how to|how do you):\s*([A-Za-z0-9\s\-\.]+)
          Pattern(1,
              Cat(<<Alt(<<Lit(<<"t","o">>), Lit(<<"f","o","r">>),
                  Lit(<<"h","o","w"," ","t","o">>),
                  Lit(<<"h","o","w"," ","d","o"," ","y","o","u">>)>>),
                  Lit(<<":">>), Star(In(Whitespace)), Group(1,
                  Plus(In(WordChars)))>>)),
          \* line 54: (?:start|begin|initiate|activate):\s*([A-Za-z0-9\s\-\.]+)
          Pattern(1,
              Cat(<<Alt(<<Lit(<<"s","t","a","r","t">>),
                  Lit(<<"b","e","g","i","n">>),
                  Lit(<<"i","n","i","t","i","a","t","e">>),
                  Lit(<<"a","c","t","i","v","a","t","e">>)>>), Lit(<<":">>),
                  Star(In(Whitespace)), Group(1, Plus(In(WordChars)))>>)),
          \* line 55: (?:turn on|switch on|power on):\s*([A-Za-z0-9\s\-\.]+)
          Pattern(1,
              Cat(<<Alt(<<Lit(<<"t","u","r","n"," ","o","n">>),
                  Lit(<<"s","w","i","t","c","h"," ","o","n">>),
                  Lit(<<"p","o","w","e","r"," ","o","n">>)>>), Lit(<<":">>),
                  Star(In(Whitespace)), Group(1, Plus(In(WordChars)))>>)) >> ],
      [ type |-> "material",
        patterns |-> <<
          \* line 58: (?:material|construction|made of|fabricated from):\s*([A-Za-z0-9\s\-\.]+)
          Pattern(1,
              Cat(<<Alt(<<Lit(<<"m","a","t","e","r","i","a","l">>),
                  Lit(<<"c","o","n","s","t","r","u","c","t","i","o","n">>),
                  Lit(<<"m","a","d","e"," ","o","f">>),
                  Lit(<<"f","a","b","r","i","c","a","t","e","d"," ","f","r","o","m">>)>>),
                  Lit(<<":">>), Star(In(Whitespace)), Group(1,
                  Plus(In(WordChars)))>>)),
          \* line 59: (?:stainless steel|aluminum|steel|cast iron|ceramic):\s*([A-Za-z0-9\s\-\.]+)
          Pattern(1,
              Cat(<<Alt(<<Lit(<<"s","t","a","i","n","l","e","s","s"," ","s","t","e","e","l">>),
                  Lit(<<"a","l","u","m","i","n","u","m">>),
                  Lit(<<"s","t","e","e","l">>),
                  Lit(<<"c","a","s","t"," ","i","r","o","n">>),
                  Lit(<<"c","e","r","a","m","i","c">>)>>), Lit(<<":">>),
                  Star(In(Whitespace)), Group(1, Plus(In(WordChars)))>>)),
          \* line 60: (?:coating|finish|surface):\s*([A-Za-z0-9\s\-\.]+)
          Pattern(1,
              Cat(<<Alt(<<Lit(<<"c","o","a","t","i","n","g">>),
                  Lit(<<"f","i","n","i","s","h">>),
                  Lit(<<"s","u","r","f","a","c","e">>)>>), Lit(<<":">>),
                  Star(In(Whitespace)), Group(1, Plus(In(WordChars)))>>)) >> ],
      [ type |-> "certification",
        patterns |-> <<
          \* line 63: (?:certified|approved|listed|compliant):\s*([A-Za-z0-9\s\-\.]+)
          Pattern(1,
              Cat(<<Alt(<<Lit(<<"c","e","r","t","i","f","i","e","d">>),
                  Lit(<<"a","p","p","r","o","v","e","d">>),
                  Lit(<<"l","i","s","t","e","d">>),
                  Lit(<<"c","o","m","p","l","i","a","n","t">>)>>),
                  Lit(<<":">>), Star(In(Whitespace)), Group(1,
                  Plus(In(WordChars)))>>)),
          \* line 64: (?:ul|ce|fcc|fda|nsf|ansi):\s*([A-Za-z0-9\s\-\.]+)
          Pattern(1,
              Cat(<<Alt(<<Lit(<<"u","l">>), Lit(<<"c","e">>),
                  Lit(<<"f","c","c">>), Lit(<<"f","d","a">>),
                  Lit(<<"n","s","f">>), Lit(<<"a","n","s","i">>)>>),
                  Lit(<<":">>), Star(In(Whitespace)), Group(1,
                  Plus(In(WordChars)))>>)),
          \* line 65: (?:meets|conforms to):\s*([A-Za-z0-9\s\-\.]+)
          Pattern(1,
              Cat(<<Alt(<<Lit(<<"m","e","e","t","s">>),
                  Lit(<<"c","o","n","f","o","r","m","s"," ","t","o">>)>>),
                  Lit(<<":">>), Star(In(Whitespace)), Group(1,
                  Plus(In(WordChars)))>>)) >> ]
    >>

\* lines 69-120: self.spec_hint_patterns
SpecHintPatterns ==
    <<
      [ type |-> "pressure",
        patterns |-> <<
          \* line 71: ([0-9\.]+)\s*(?:psi|bar|pa|kpa|mpa)\s*(?:pressure|psig|psia)
          Pattern(1,
              Cat(<<Group(1, Plus(In(NumberChars))), Star(In(Whitespace)),
                  Alt(<<Lit(<<"p","s","i">>), Lit(<<"b","a","r">>),
                  Lit(<<"p","a">>), Lit(<<"k","p","a">>),
                  Lit(<<"m","p","a">>)>>), Star(In(Whitespace)),
                  Alt(<<Lit(<<"p","r","e","s","s","u","r","e">>),
                  Lit(<<"p","s","i","g">>), Lit(<<"p","s","i","a">>)>>)>>)),
          \* line 72: pressure:\s*([0-9\.]+)\s*(psi|bar|pa|kpa|mpa)
          Pattern(2,
              Cat(<<Lit(<<"p","r","e","s","s","u","r","e",":">>),
                  Star(In(Whitespace)), Group(1, Plus(In(NumberChars))),
                  Star(In(Whitespace)), Group(2, Alt(<<Lit(<<"p","s","i">>),
                  Lit(<<"b","a","r">>), Lit(<<"p","a">>),
                  Lit(<<"k","p","a">>), Lit(<<"m","p","a">>)>>))>>)),
          \* line 73: (?:operating|working|max|min)\s+pressure:\s*([0-9\.]+)\s*(psi|bar|pa|kpa|mpa)
          Pattern(2,
              Cat(<<Alt(<<Lit(<<"o","p","e","r","a","t","i","n","g">>),
                  Lit(<<"w","o","r","k","i","n","g">>), Lit(<<"m","a","x">>),
                  Lit(<<"m","i","n">>)>>), Plus(In(Whitespace)),
                  Lit(<<"p","r","e","s","s","u","r","e",":">>),
                  Star(In(Whitespace)), Group(1, Plus(In(NumberChars))),
                  Star(In(Whitespace)), Group(2, Alt(<<Lit(<<"p","s","i">>),
                  Lit(<<"b","a","r">>), Lit(<<"p","a">>),
                  Lit(<<"k","p","a">>), Lit(<<"m","p","a">>)>>))>>)),
          \* line 74: ([0-9\.]+)\s*(?:psi|bar|pa|kpa|mpa)\s*(?:operating|working|maximum|minimum)
          Pattern(1,
              Cat(<<Group(1, Plus(In(NumberChars))), Star(In(Whitespace)),
                  Alt(<<Lit(<<"p","s","i">>), Lit(<<"b","a","r">>),
                  Lit(<<"p","a">>), Lit(<<"k","p","a">>),
                  Lit(<<"m","p","a">>)>>), Star(In(Whitespace)),
                  Alt(<<Lit(<<"o","p","e","r","a","t","i","n","g">>),
                  Lit(<<"w","o","r","k","i","n","g">>),
                  Lit(<<"m","a","x","i","m","u","m">>),
                  Lit(<<"m","i","n","i","m","u","m">>)>>)>>)) >> ],
      [ type |-> "temperature",
        patterns |-> <<
          \* line 77: ([0-9\.]+)\s*(?:Degreec|Degreef|celsius|fahrenheit|deg)\s*(?:temperature|temp)
          Pattern(1,
              Cat(<<Group(1, Plus(In(NumberChars))), Star(In(Whitespace)),
                  Alt(<<Lit(<<Degree,"c">>), Lit(<<Degree,"f">>),
                  Lit(<<"c","e","l","s","i","u","s">>),
                  Lit(<<"f","a","h","r","e","n","h","e","i","t">>),
                  Lit(<<"d","e","g">>)>>), Star(In(Whitespace)),
                  Alt(<<Lit(<<"t","e","m","p","e","r","a","t","u","r","e">>),
                  Lit(<<"t","e","m","p">>)>>)>>)),
          \* line 78: temperature:\s*([0-9\.]+)\s*(Degreec|Degreef|celsius|fahrenheit)
          Pattern(2,
              Cat(<<Lit(<<"t","e","m","p","e","r","a","t","u","r","e",":">>),
                  Star(In(Whitespace)), Group(1, Plus(In(NumberChars))),
                  Star(In(Whitespace)), Group(2, Alt(<<Lit(<<Degree,"c">>),
                  Lit(<<Degree,"f">>), Lit(<<"c","e","l","s","i","u","s">>),
                  Lit(<<"f","a","h","r","e","n","h","e","i","t">>)>>))>>)),
          \* line 79: (?:operating|working|max|min)\s+temperature:\s*([0-9\.]+)\s*(Degreec|Degreef|celsius|fahrenheit)
          Pattern(2,
              Cat(<<Alt(<<Lit(<<"o","p","e","r","a","t","i","n","g">>),
                  Lit(<<"w","o","r","k","i","n","g">>), Lit(<<"m","a","x">>),
                  Lit(<<"m","i","n">>)>>), Plus(In(Whitespace)),
                  Lit(<<"t","e","m","p","e","r","a","t","u","r","e",":">>),
                  Star(In(Whitespace)), Group(1, Plus(In(NumberChars))),
                  Star(In(Whitespace)), Group(2, Alt(<<Lit(<<Degree,"c">>),
                  Lit(<<Degree,"f">>), Lit(<<"c","e","l","s","i","u","s">>),
                  Lit(<<"f","a","h","r","e","n","h","e","i","t">>)>>))>>)),
          \* line 80: ([0-9\.]+)\s*(?:Degreec|Degreef|celsius|fahrenheit)\s*(?:operating|working|maximum|minimum)
          Pattern(1,
              Cat(<<Group(1, Plus(In(NumberChars))), Star(In(Whitespace)),
                  Alt(<<Lit(<<Degree,"c">>), Lit(<<Degree,"f">>),
                  Lit(<<"c","e","l","s","i","u","s">>),
                  Lit(<<"f","a","h","r","e","n","h","e","i","t">>)>>),
                  Star(In(Whitespace)),
                  Alt(<<Lit(<<"o","p","e","r","a","t","i","n","g">>),
                  Lit(<<"w","o","r","k","i","n","g">>),
                  Lit(<<"m","a","x","i","m","u","m">>),
                  Lit(<<"m","i","n","i","m","u","m">>)>>)>>)),
          \* line 81: (?:heat|heating|cooling)\s+to\s+([0-9\.]+)\s*(Degreec|Degreef|celsius|fahrenheit)
          Pattern(2,
              Cat(<<Alt(<<Lit(<<"h","e","a","t">>),
                  Lit(<<"h","e","a","t","i","n","g">>),
                  Lit(<<"c","o","o","l","i","n","g">>)>>),
                  Plus(In(Whitespace)), Lit(<<"t","o">>),
                  Plus(In(Whitespace)), Group(1, Plus(In(NumberChars))),
                  Star(In(Whitespace)), Group(2, Alt(<<Lit(<<Degree,"c">>),
                  Lit(<<Degree,"f">>), Lit(<<"c","e","l","s","i","u","s">>),
                  Lit(<<"f","a","h","r","e","n","h","e","i","t">>)>>))>>)) >> ],
      [ type |-> "voltage",
        patterns |-> <<
          \* line 84: ([0-9\.]+)\s*(?:v|volts|voltage|dc|ac)
          Pattern(1,
              Cat(<<Group(1, Plus(In(NumberChars))), Star(In(Whitespace)),
                  Alt(<<Lit(<<"v">>), Lit(<<"v","o","l","t","s">>),
                  Lit(<<"v","o","l","t","a","g","e">>), Lit(<<"d","c">>),
                  Lit(<<"a","c">>)>>)>>)),
          \* line 85: voltage:\s*([0-9\.]+)\s*(v|volts|dc|ac)
          Pattern(2,
              Cat(<<Lit(<<"v","o","l","t","a","g","e",":">>),
                  Star(In(Whitespace)), Group(1, Plus(In(NumberChars))),
                  Star(In(Whitespace)), Group(2, Alt(<<Lit(<<"v">>),
                  Lit(<<"v","o","l","t","s">>), Lit(<<"d","c">>),
                  Lit(<<"a","c">>)>>))>>)),
          \* line 86: (?:input|output|operating)\s+voltage:\s*([0-9\.]+)\s*(v|volts|dc|ac)
          Pattern(2,
              Cat(<<Alt(<<Lit(<<"i","n","p","u","t">>),
                  Lit(<<"o","u","t","p","u","t">>),
                  Lit(<<"o","p","e","r","a","t","i","n","g">>)>>),
                  Plus(In(Whitespace)),
                  Lit(<<"v","o","l","t","a","g","e",":">>),
                  Star(In(Whitespace)), Group(1, Plus(In(NumberChars))),
                  Star(In(Whitespace)), Group(2, Alt(<<Lit(<<"v">>),
                  Lit(<<"v","o","l","t","s">>), Lit(<<"d","c">>),
                  Lit(<<"a","c">>)>>))>>)),
          \* line 87: ([0-9\.]+)\s*(?:v|volts|dc|ac)\s*(?:input|output|operating)
          Pattern(1,
              Cat(<<Group(1, Plus(In(NumberChars))), Star(In(Whitespace)),
                  Alt(<<Lit(<<"v">>), Lit(<<"v","o","l","t","s">>),
                  Lit(<<"d","c">>), Lit(<<"a","c">>)>>),
                  Star(In(Whitespace)), Alt(<<Lit(<<"i","n","p","u","t">>),
                  Lit(<<"o","u","t","p","u","t">>),
                  Lit(<<"o","p","e","r","a","t","i","n","g">>)>>)>>)),
          \* line 88: (?:120|240|110|220|12|24|48)\s*(?:v|volts|dc|ac)
          Pattern(0,
              Cat(<<Alt(<<Lit(<<"1","2","0">>), Lit(<<"2","4","0">>),
                  Lit(<<"1","1","0">>), Lit(<<"2","2","0">>),
                  Lit(<<"1","2">>), Lit(<<"2","4">>), Lit(<<"4","8">>)>>),
                  Star(In(Whitespace)), Alt(<<Lit(<<"v">>),
                  Lit(<<"v","o","l","t","s">>), Lit(<<"d","c">>),
                  Lit(<<"a","c">>)>>)>>)) >> ],
      [ type |-> "flow_rate",
        patterns |-> <<
          \* line 91: ([0-9\.]+)\s*(?:gpm|lpm|cfm|gph|lph)\s*(?:flow|rate)
          Pattern(1,
              Cat(<<Group(1, Plus(In(NumberChars))), Star(In(Whitespace)),
                  Alt(<<Lit(<<"g","p","m">>), Lit(<<"l","p","m">>),
                  Lit(<<"c","f","m">>), Lit(<<"g","p","h">>),
                  Lit(<<"l","p","h">>)>>), Star(In(Whitespace)),
                  Alt(<<Lit(<<"f","l","o","w">>),
                  Lit(<<"r","a","t","e">>)>>)>>)),
          \* line 92: flow rate:\s*([0-9\.]+)\s*(gpm|lpm|cfm|gph|lph)
          Pattern(2,
              Cat(<<Lit(<<"f","l","o","w"," ","r","a","t","e",":">>),
                  Star(In(Whitespace)), Group(1, Plus(In(NumberChars))),
                  Star(In(Whitespace)), Group(2, Alt(<<Lit(<<"g","p","m">>),
                  Lit(<<"l","p","m">>), Lit(<<"c","f","m">>),
                  Lit(<<"g","p","h">>), Lit(<<"l","p","h">>)>>))>>)),
          \* line 93: (?:air|gas|water)\s+flow:\s*([0-9\.]+)\s*(gpm|lpm|cfm|gph|lph)
          Pattern(2,
              Cat(<<Alt(<<Lit(<<"a","i","r">>), Lit(<<"g","a","s">>),
                  Lit(<<"w","a","t","e","r">>)>>), Plus(In(Whitespace)),
                  Lit(<<"f","l","o","w",":">>), Star(In(Whitespace)),
                  Group(1, Plus(In(NumberChars))), Star(In(Whitespace)),
                  Group(2, Alt(<<Lit(<<"g","p","m">>), Lit(<<"l","p","m">>),
                  Lit(<<"c","f","m">>), Lit(<<"g","p","h">>),
                  Lit(<<"l","p","h">>)>>))>>)),
          \* line 94: ([0-9\.]+)\s*(?:gpm|lpm|cfm|gph|lph)\s*(?:air|gas|water)\s+flow
          Pattern(1,
              Cat(<<Group(1, Plus(In(NumberChars))), Star(In(Whitespace)),
                  Alt(<<Lit(<<"g","p","m">>), Lit(<<"l","p","m">>),
                  Lit(<<"c","f","m">>), Lit(<<"g","p","h">>),
                  Lit(<<"l","p","h">>)>>), Star(In(Whitespace)),
                  Alt(<<Lit(<<"a","i","r">>), Lit(<<"g","a","s">>),
                  Lit(<<"w","a","t","e","r">>)>>), Plus(In(Whitespace)),
                  Lit(<<"f","l","o","w">>)>>)) >> ],
      [ type |-> "dimension",
        patterns |-> <<
          \* line 97: ([0-9\.]+)\s*(?:in|inch|inches|mm|cm|ft|feet)\s*(?:x|by|Times)\s*([0-9\.]+)\s*(?:in|inch|inches|mm|cm|ft|feet)
          Pattern(2,
              Cat(<<Group(1, Plus(In(NumberChars))), Star(In(Whitespace)),
                  Alt(<<Lit(<<"i","n">>), Lit(<<"i","n","c","h">>),
                  Lit(<<"i","n","c","h","e","s">>), Lit(<<"m","m">>),
                  Lit(<<"c","m">>), Lit(<<"f","t">>),
                  Lit(<<"f","e","e","t">>)>>), Star(In(Whitespace)),
                  Alt(<<Lit(<<"x">>), Lit(<<"b","y">>), Lit(<<Times>>)>>),
                  Star(In(Whitespace)), Group(2, Plus(In(NumberChars))),
                  Star(In(Whitespace)), Alt(<<Lit(<<"i","n">>),
                  Lit(<<"i","n","c","h">>), Lit(<<"i","n","c","h","e","s">>),
                  Lit(<<"m","m">>), Lit(<<"c","m">>), Lit(<<"f","t">>),
                  Lit(<<"f","e","e","t">>)>>)>>)),
          \* line 98: size:\s*([0-9\.]+)\s*(?:x|by|Times)\s*([0-9\.]+)\s*(?:in|inch|inches|mm|cm|ft|feet)
          Pattern(2,
              Cat(<<Lit(<<"s","i","z","e",":">>), Star(In(Whitespace)),
                  Group(1, Plus(In(NumberChars))), Star(In(Whitespace)),
                  Alt(<<Lit(<<"x">>), Lit(<<"b","y">>), Lit(<<Times>>)>>),
                  Star(In(Whitespace)), Group(2, Plus(In(NumberChars))),
                  Star(In(Whitespace)), Alt(<<Lit(<<"i","n">>),
                  Lit(<<"i","n","c","h">>), Lit(<<"i","n","c","h","e","s">>),
                  Lit(<<"m","m">>), Lit(<<"c","m">>), Lit(<<"f","t">>),
                  Lit(<<"f","e","e","t">>)>>)>>)),
          \* line 99: dimensions:\s*([0-9\.]+)\s*(?:x|by|Times)\s*([0-9\.]+)\s*(?:x|by|Times)\s*([0-9\.]+)\s*(?:in|inch|inches|mm|cm|ft|feet)
          Pattern(3,
              Cat(<<Lit(<<"d","i","m","e","n","s","i","o","n","s",":">>),
                  Star(In(Whitespace)), Group(1, Plus(In(NumberChars))),
                  Star(In(Whitespace)), Alt(<<Lit(<<"x">>), Lit(<<"b","y">>),
                  Lit(<<Times>>)>>), Star(In(Whitespace)), Group(2,
                  Plus(In(NumberChars))), Star(In(Whitespace)),
                  Alt(<<Lit(<<"x">>), Lit(<<"b","y">>), Lit(<<Times>>)>>),
                  Star(In(Whitespace)), Group(3, Plus(In(NumberChars))),
                  Star(In(Whitespace)), Alt(<<Lit(<<"i","n">>),
                  Lit(<<"i","n","c","h">>), Lit(<<"i","n","c","h","e","s">>),
                  Lit(<<"m","m">>), Lit(<<"c","m">>), Lit(<<"f","t">>),
                  Lit(<<"f","e","e","t">>)>>)>>)),
          \* line 100: (?:length|width|height|depth):\s*([0-9\.]+)\s*(?:in|inch|inches|mm|cm|ft|feet)
          Pattern(1,
              Cat(<<Alt(<<Lit(<<"l","e","n","g","t","h">>),
                  Lit(<<"w","i","d","t","h">>),
                  Lit(<<"h","e","i","g","h","t">>),
                  Lit(<<"d","e","p","t","h">>)>>), Lit(<<":">>),
                  Star(In(Whitespace)), Group(1, Plus(In(NumberChars))),
                  Star(In(Whitespace)), Alt(<<Lit(<<"i","n">>),
                  Lit(<<"i","n","c","h">>), Lit(<<"i","n","c","h","e","s">>),
                  Lit(<<"m","m">>), Lit(<<"c","m">>), Lit(<<"f","t">>),
                  Lit(<<"f","e","e","t">>)>>)>>)) >> ],
      [ type |-> "power",
        patterns |-> <<
          \* line 103: ([0-9\.]+)\s*(?:w|watts|kw|kilowatts|hp|horsepower)
          Pattern(1,
              Cat(<<Group(1, Plus(In(NumberChars))), Star(In(Whitespace)),
                  Alt(<<Lit(<<"w">>), Lit(<<"w","a","t","t","s">>),
                  Lit(<<"k","w">>),
                  Lit(<<"k","i","l","o","w","a","t","t","s">>),
                  Lit(<<"h","p">>),
                  Lit(<<"h","o","r","s","e","p","o","w","e","r">>)>>)>>)),
          \* line 104: power:\s*([0-9\.]+)\s*(w|watts|kw|kilowatts|hp|horsepower)
          Pattern(2,
              Cat(<<Lit(<<"p","o","w","e","r",":">>), Star(In(Whitespace)),
                  Group(1, Plus(In(NumberChars))), Star(In(Whitespace)),
                  Group(2, Alt(<<Lit(<<"w">>), Lit(<<"w","a","t","t","s">>),
                  Lit(<<"k","w">>),
                  Lit(<<"k","i","l","o","w","a","t","t","s">>),
                  Lit(<<"h","p">>),
                  Lit(<<"h","o","r","s","e","p","o","w","e","r">>)>>))>>)),
          \* line 105: (?:rated|maximum|nominal)\s+power:\s*([0-9\.]+)\s*(w|watts|kw|kilowatts|hp|horsepower)
          Pattern(2,
              Cat(<<Alt(<<Lit(<<"r","a","t","e","d">>),
                  Lit(<<"m","a","x","i","m","u","m">>),
                  Lit(<<"n","o","m","i","n","a","l">>)>>),
                  Plus(In(Whitespace)), Lit(<<"p","o","w","e","r",":">>),
                  Star(In(Whitespace)), Group(1, Plus(In(NumberChars))),
                  Star(In(Whitespace)), Group(2, Alt(<<Lit(<<"w">>),
                  Lit(<<"w","a","t","t","s">>), Lit(<<"k","w">>),
                  Lit(<<"k","i","l","o","w","a","t","t","s">>),
                  Lit(<<"h","p">>),
                  Lit(<<"h","o","r","s","e","p","o","w","e","r">>)>>))>>)),
          \* line 106: ([0-9\.]+)\s*(?:w|watts|kw|kilowatts|hp|horsepower)\s*(?:rated|maximum|nominal)
          Pattern(1,
              Cat(<<Group(1, Plus(In(NumberChars))), Star(In(Whitespace)),
                  Alt(<<Lit(<<"w">>), Lit(<<"w","a","t","t","s">>),
                  Lit(<<"k","w">>),
                  Lit(<<"k","i","l","o","w","a","t","t","s">>),
                  Lit(<<"h","p">>),
                  Lit(<<"h","o","r","s","e","p","o","w","e","r">>)>>),
                  Star(In(Whitespace)), Alt(<<Lit(<<"r","a","t","e","d">>),
                  Lit(<<"m","a","x","i","m","u","m">>),
                  Lit(<<"n","o","m","i","n","a","l">>)>>)>>)) >> ],
      [ type |-> "capacity",
        patterns |-> <<
          \* line 109: ([0-9\.]+)\s*(?:lbs|pounds|kg|kilograms|tons|gallons|liters)
          Pattern(1,
              Cat(<<Group(1, Plus(In(NumberChars))), Star(In(Whitespace)),
                  Alt(<<Lit(<<"l","b","s">>),
                  Lit(<<"p","o","u","n","d","s">>), Lit(<<"k","g">>),
                  Lit(<<"k","i","l","o","g","r","a","m","s">>),
                  Lit(<<"t","o","n","s">>),
                  Lit(<<"g","a","l","l","o","n","s">>),
                  Lit(<<"l","i","t","e","r","s">>)>>)>>)),
          \* line 110: capacity:\s*([0-9\.]+)\s*(lbs|pounds|kg|kilograms|tons|gallons|liters)
          Pattern(2,
              Cat(<<Lit(<<"c","a","p","a","c","i","t","y",":">>),
                  Star(In(Whitespace)), Group(1, Plus(In(NumberChars))),
                  Star(In(Whitespace)), Group(2, Alt(<<Lit(<<"l","b","s">>),
                  Lit(<<"p","o","u","n","d","s">>), Lit(<<"k","g">>),
                  Lit(<<"k","i","l","o","g","r","a","m","s">>),
                  Lit(<<"t","o","n","s">>),
                  Lit(<<"g","a","l","l","o","n","s">>),
                  Lit(<<"l","i","t","e","r","s">>)>>))>>)),
          \* line 111: (?:cooking|grilling|heating)\s+capacity:\s*([0-9\.]+)\s*(lbs|pounds|kg|kilograms)
          Pattern(2,
              Cat(<<Alt(<<Lit(<<"c","o","o","k","i","n","g">>),
                  Lit(<<"g","r","i","l","l","i","n","g">>),
                  Lit(<<"h","e","a","t","i","n","g">>)>>),
                  Plus(In(Whitespace)),
                  Lit(<<"c","a","p","a","c","i","t","y",":">>),
                  Star(In(Whitespace)), Group(1, Plus(In(NumberChars))),
                  Star(In(Whitespace)), Group(2, Alt(<<Lit(<<"l","b","s">>),
                  Lit(<<"p","o","u","n","d","s">>), Lit(<<"k","g">>),
                  Lit(<<"k","i","l","o","g","r","a","m","s">>)>>))>>)),
          \* line 112: ([0-9\.]+)\s*(?:lbs|pounds|kg|kilograms)\s*(?:cooking|grilling|heating)\s+capacity
          Pattern(1,
              Cat(<<Group(1, Plus(In(NumberChars))), Star(In(Whitespace)),
                  Alt(<<Lit(<<"l","b","s">>),
                  Lit(<<"p","o","u","n","d","s">>), Lit(<<"k","g">>),
                  Lit(<<"k","i","l","o","g","r","a","m","s">>)>>),
                  Star(In(Whitespace)),
                  Alt(<<Lit(<<"c","o","o","k","i","n","g">>),
                  Lit(<<"g","r","i","l","l","i","n","g">>),
                  Lit(<<"h","e","a","t","i","n","g">>)>>),
                  Plus(In(Whitespace)),
                  Lit(<<"c","a","p","a","c","i","t","y">>)>>)) >> ],
      [ type |-> "efficiency",
        patterns |-> <<
          \* line 115: ([0-9\.]+)\s*(?:%|percent)\s*(?:efficiency|efficient)
          Pattern(1,
              Cat(<<Group(1, Plus(In(NumberChars))), Star(In(Whitespace)),
                  Alt(<<Lit(<<"%">>),
                  Lit(<<"p","e","r","c","e","n","t">>)>>),
                  Star(In(Whitespace)),
                  Alt(<<Lit(<<"e","f","f","i","c","i","e","n","c","y">>),
                  Lit(<<"e","f","f","i","c","i","e","n","t">>)>>)>>)),
          \* line 116: efficiency:\s*([0-9\.]+)\s*(%|percent)
          Pattern(2,
              Cat(<<Lit(<<"e","f","f","i","c","i","e","n","c","y",":">>),
                  Star(In(Whitespace)), Group(1, Plus(In(NumberChars))),
                  Star(In(Whitespace)), Group(2, Alt(<<Lit(<<"%">>),
                  Lit(<<"p","e","r","c","e","n","t">>)>>))>>)),
          \* line 117: (?:thermal|energy|fuel)\s+efficiency:\s*([0-9\.]+)\s*(%|percent)
          Pattern(2,
              Cat(<<Alt(<<Lit(<<"t","h","e","r","m","a","l">>),
                  Lit(<<"e","n","e","r","g","y">>),
                  Lit(<<"f","u","e","l">>)>>), Plus(In(Whitespace)),
                  Lit(<<"e","f","f","i","c","i","e","n","c","y",":">>),
                  Star(In(Whitespace)), Group(1, Plus(In(NumberChars))),
                  Star(In(Whitespace)), Group(2, Alt(<<Lit(<<"%">>),
                  Lit(<<"p","e","r","c","e","n","t">>)>>))>>)),
          \* line 118: ([0-9\.]+)\s*(?:%|percent)\s*(?:thermal|energy|fuel)\s+efficiency
          Pattern(1,
              Cat(<<Group(1, Plus(In(NumberChars))), Star(In(Whitespace)),
                  Alt(<<Lit(<<"%">>),
                  Lit(<<"p","e","r","c","e","n","t">>)>>),
                  Star(In(Whitespace)),
                  Alt(<<Lit(<<"t","h","e","r","m","a","l">>),
                  Lit(<<"e","n","e","r","g","y">>),
                  Lit(<<"f","u","e","l">>)>>), Plus(In(Whitespace)),
                  Lit(<<"e","f","f","i","c","i","e","n","c","y">>)>>)) >> ]
    >>

\* lines 122-153: self.golden_test_patterns
GoldenTestPatterns ==
    <<
      [ type |-> "procedure",
        patterns |-> <<
          \* line 124: (?:test|check|verify|validate):\s*([A-Za-z0-9\s\-\.]+)
          Pattern(1,
              Cat(<<Alt(<<Lit(<<"t","e","s","t">>),
                  Lit(<<"c","h","e","c","k">>),
                  Lit(<<"v","e","r","i","f","y">>),
                  Lit(<<"v","a","l","i","d","a","t","e">>)>>), Lit(<<":">>),
                  Star(In(Whitespace)), Group(1, Plus(In(WordChars)))>>)),
          \* line 125: (?:step|procedure)\s+([0-9]+):\s*([A-Za-z0-9\s\-\.]+)
          Pattern(2,
              Cat(<<Alt(<<Lit(<<"s","t","e","p">>),
                  Lit(<<"p","r","o","c","e","d","u","r","e">>)>>),
                  Plus(In(Whitespace)), Group(1, Plus(In(Digits))),
                  Lit(<<":">>), Star(In(Whitespace)), Group(2,
                  Plus(In(WordChars)))>>)),
          \* line 126: (?:operation|maintenance|cleaning|inspection):\s*([A-Za-z0-9\s\-\.]+)
          Pattern(1,
              Cat(<<Alt(<<Lit(<<"o","p","e","r","a","t","i","o","n">>),
                  Lit(<<"m","a","i","n","t","e","n","a","n","c","e">>),
                  Lit(<<"c","l","e","a","n","i","n","g">>),
                  Lit(<<"i","n","s","p","e","c","t","i","o","n">>)>>),
                  Lit(<<":">>), Star(In(Whitespace)), Group(1,
                  Plus(In(WordChars)))>>)),
          \* line 127: (?:startup|shutdown|initialization):\s*([A-Za-z0-9\s\-\.]+)
          Pattern(1,
              Cat(<<Alt(<<Lit(<<"s","t","a","r","t","u","p">>),
                  Lit(<<"s","h","u","t","d","o","w","n">>),
                  Lit(<<"i","n","i","t","i","a","l","i","z","a","t","i","o","n">>)>>),
                  Lit(<<":">>), Star(In(Whitespace)), Group(1,
                  Plus(In(WordChars)))>>)),
          \* line 128: (?:troubleshooting|diagnostic|repair):\s*([A-Za-z0-9\s\-\.]+)
          Pattern(1,
              Cat(<<Alt(<<Lit(<<"t","r","o","u","b","l","e","s","h","o","o","t","i","n","g">>),
                  Lit(<<"d","i","a","g","n","o","s","t","i","c">>),
                  Lit(<<"r","e","p","a","i","r">>)>>), Lit(<<":">>),
                  Star(In(Whitespace)), Group(1, Plus(In(WordChars)))>>)) >> ],
      [ type |-> "checklist",
        patterns |-> <<
          \* line 131: WhiteSquare\s*([A-Za-z0-9\s\-\.]+)
          Pattern(1,
              Cat(<<Lit(<<WhiteSquare>>), Star(In(Whitespace)), Group(1,
                  Plus(In(WordChars)))>>)),
          \* line 132: BallotBox\s*([A-Za-z0-9\s\-\.]+)
          Pattern(1,
              Cat(<<Lit(<<BallotBox>>), Star(In(Whitespace)), Group(1,
                  Plus(In(WordChars)))>>)),
          \* line 133: Bullet\s*([A-Za-z0-9\s\-\.]+)
          Pattern(1,
              Cat(<<Lit(<<Bullet>>), Star(In(Whitespace)), Group(1,
                  Plus(In(WordChars)))>>)),
          \* line 134: (?:check|verify|ensure|confirm):\s*([A-Za-z0-9\s\-\.]+)
          Pattern(1,
              Cat(<<Alt(<<Lit(<<"c","h","e","c","k">>),
                  Lit(<<"v","e","r","i","f","y">>),
                  Lit(<<"e","n","s","u","r","e">>),
                  Lit(<<"c","o","n","f","i","r","m">>)>>), Lit(<<":">>),
                  Star(In(Whitespace)), Group(1, Plus(In(WordChars)))>>)),
          \* line 135: (?:before|after|during)\s+(?:use|operation|startup):\s*([A-Za-z0-9\s\-\.]+)
          Pattern(1,
              Cat(<<Alt(<<Lit(<<"b","e","f","o","r","e">>),
                  Lit(<<"a","f","t","e","r">>),
                  Lit(<<"d","u","r","i","n","g">>)>>), Plus(In(Whitespace)),
                  Alt(<<Lit(<<"u","s","e">>),
                  Lit(<<"o","p","e","r","a","t","i","o","n">>),
                  Lit(<<"s","t","a","r","t","u","p">>)>>), Lit(<<":">>),
                  Star(In(Whitespace)), Group(1, Plus(In(WordChars)))>>)) >> ],
      [ type |-> "measurement",
        patterns |-> <<
          \* line 138: (?:measure|check|verify)\s+([A-Za-z0-9\s\-\.]+)\s*(?:with|using)\s*([A-Za-z0-9\s\-\.]+)
          Pattern(2,
              Cat(<<Alt(<<Lit(<<"m","e","a","s","u","r","e">>),
                  Lit(<<"c","h","e","c","k">>),
                  Lit(<<"v","e","r","i","f","y">>)>>), Plus(In(Whitespace)),
                  Group(1, Plus(In(WordChars))), Star(In(Whitespace)),
                  Alt(<<Lit(<<"w","i","t","h">>),
                  Lit(<<"u","s","i","n","g">>)>>), Star(In(Whitespace)),
                  Group(2, Plus(In(WordChars)))>>)),
          \* line 139: (?:reading|value)\s+(?:should be|must be|is)\s*([0-9\.]+)\s*([A-Za-z]+)
          Pattern(2,
              Cat(<<Alt(<<Lit(<<"r","e","a","d","i","n","g">>),
                  Lit(<<"v","a","l","u","e">>)>>), Plus(In(Whitespace)),
                  Alt(<<Lit(<<"s","h","o","u","l","d"," ","b","e">>),
                  Lit(<<"m","u","s","t"," ","b","e">>), Lit(<<"i","s">>)>>),
                  Star(In(Whitespace)), Group(1, Plus(In(NumberChars))),
                  Star(In(Whitespace)), Group(2, Plus(In(Letters)))>>)),
          \* line 140: (?:temperature|pressure|voltage|current)\s+(?:reading|measurement):\s*([0-9\.]+)\s*([A-Za-z]+)
          Pattern(2,
              Cat(<<Alt(<<Lit(<<"t","e","m","p","e","r","a","t","u","r","e">>),
                  Lit(<<"p","r","e","s","s","u","r","e">>),
                  Lit(<<"v","o","l","t","a","g","e">>),
                  Lit(<<"c","u","r","r","e","n","t">>)>>),
                  Plus(In(Whitespace)),
                  Alt(<<Lit(<<"r","e","a","d","i","n","g">>),
                  Lit(<<"m","e","a","s","u","r","e","m","e","n","t">>)>>),
                  Lit(<<":">>), Star(In(Whitespace)), Group(1,
                  Plus(In(NumberChars))), Star(In(Whitespace)), Group(2,
                  Plus(In(Letters)))>>)),
          \* line 141: (?:calibrate|adjust|set)\s+(?:to|at)\s*([0-9\.]+)\s*([A-Za-z]+)
          Pattern(2,
              Cat(<<Alt(<<Lit(<<"c","a","l","i","b","r","a","t","e">>),
                  Lit(<<"a","d","j","u","s","t">>), Lit(<<"s","e","t">>)>>),
                  Plus(In(Whitespace)), Alt(<<Lit(<<"t","o">>),
                  Lit(<<"a","t">>)>>), Star(In(Whitespace)), Group(1,
                  Plus(In(NumberChars))), Star(In(Whitespace)), Group(2,
                  Plus(In(Letters)))>>)) >> ],
      [ type |-> "safety",
        patterns |-> <<
          \* line 144: (?:safety|precaution|warning)\s+(?:check|test|verify):\s*([A-Za-z0-9\s\-\.]+)
          Pattern(1,
              Cat(<<Alt(<<Lit(<<"s","a","f","e","t","y">>),
                  Lit(<<"p","r","e","c","a","u","t","i","o","n">>),
                  Lit(<<"w","a","r","n","i","n","g">>)>>),
                  Plus(In(Whitespace)), Alt(<<Lit(<<"c","h","e","c","k">>),
                  Lit(<<"t","e","s","t">>),
                  Lit(<<"v","e","r","i","f","y">>)>>), Lit(<<":">>),
                  Star(In(Whitespace)), Group(1, Plus(In(WordChars)))>>)),
          \* line 145: (?:emergency|shutdown|stop)\s+(?:procedure|test):\s*([A-Za-z0-9\s\-\.]+)
          Pattern(1,
              Cat(<<Alt(<<Lit(<<"e","m","e","r","g","e","n","c","y">>),
                  Lit(<<"s","h","u","t","d","o","w","n">>),
                  Lit(<<"s","t","o","p">>)>>), Plus(In(Whitespace)),
                  Alt(<<Lit(<<"p","r","o","c","e","d","u","r","e">>),
                  Lit(<<"t","e","s","t">>)>>), Lit(<<":">>),
                  Star(In(Whitespace)), Group(1, Plus(In(WordChars)))>>)),
          \* line 146: (?:fire|gas|electrical)\s+(?:safety|hazard)\s+(?:check|test):\s*([A-Za-z0-9\s\-\.]+)
          Pattern(1,
              Cat(<<Alt(<<Lit(<<"f","i","r","e">>), Lit(<<"g","a","s">>),
                  Lit(<<"e","l","e","c","t","r","i","c","a","l">>)>>),
                  Plus(In(Whitespace)),
                  Alt(<<Lit(<<"s","a","f","e","t","y">>),
                  Lit(<<"h","a","z","a","r","d">>)>>), Plus(In(Whitespace)),
                  Alt(<<Lit(<<"c","h","e","c","k">>),
                  Lit(<<"t","e","s","t">>)>>), Lit(<<":">>),
                  Star(In(Whitespace)), Group(1, Plus(In(WordChars)))>>)) >> ],
      [ type |-> "performance",
        patterns |-> <<
          \* line 149: (?:performance|efficiency|output)\s+(?:test|check|verify):\s*([A-Za-z0-9\s\-\.]+)
          Pattern(1,
              Cat(<<Alt(<<Lit(<<"p","e","r","f","o","r","m","a","n","c","e">>),
                  Lit(<<"e","f","f","i","c","i","e","n","c","y">>),
                  Lit(<<"o","u","t","p","u","t">>)>>), Plus(In(Whitespace)),
                  Alt(<<Lit(<<"t","e","s","t">>),
                  Lit(<<"c","h","e","c","k">>),
                  Lit(<<"v","e","r","i","f","y">>)>>), Lit(<<":">>),
                  Star(In(Whitespace)), Group(1, Plus(In(WordChars)))>>)),
          \* line 150: (?:load|stress|endurance)\s+(?:test|check):\s*([A-Za-z0-9\s\-\.]+)
          Pattern(1,
              Cat(<<Alt(<<Lit(<<"l","o","a","d">>),
                  Lit(<<"s","t","r","e","s","s">>),
                  Lit(<<"e","n","d","u","r","a","n","c","e">>)>>),
                  Plus(In(Whitespace)), Alt(<<Lit(<<"t","e","s","t">>),
                  Lit(<<"c","h","e","c","k">>)>>), Lit(<<":">>),
                  Star(In(Whitespace)), Group(1, Plus(In(WordChars)))>>)),
          \* line 151: (?:quality|functionality)\s+(?:test|check|verify):\s*([A-Za-z0-9\s\-\.]+)
          Pattern(1,
              Cat(<<Alt(<<Lit(<<"q","u","a","l","i","t","y">>),
                  Lit(<<"f","u","n","c","t","i","o","n","a","l","i","t","y">>)>>),
                  Plus(In(Whitespace)), Alt(<<Lit(<<"t","e","s","t">>),
                  Lit(<<"c","h","e","c","k">>),
                  Lit(<<"v","e","r","i","f","y">>)>>), Lit(<<":">>),
                  Star(In(Whitespace)), Group(1, Plus(In(WordChars)))>>)) >> ]
    >>

\* lines 291-294: unit_patterns
UnitPatterns ==
    <<
      \* line 292: (?P<value>\d+(?:\.\d+)?)\s*(?P<unit>[A-Za-z%Degree]+(?:/[A-Za-z%Degree]+)?)
      Pattern(2,
          Cat(<<Group(1, Cat(<<Plus(In(Digits)), Opt(Cat(<<Lit(<<".">>),
              Plus(In(Digits))>>))>>)), Star(In(Whitespace)), Group(2,
              Cat(<<Plus(In(UnitChars)), Opt(Cat(<<Lit(<<"/">>),
              Plus(In(UnitChars))>>))>>))>>)),
      \* line 293: (?P<value>\d+(?:\.\d+)?)\s*(?P<unit>V(?:DC|AC)?|W|A|bar|psi|Degree[CF]|gpm|lpm)
      Pattern(2,
          Cat(<<Group(1, Cat(<<Plus(In(Digits)), Opt(Cat(<<Lit(<<".">>),
              Plus(In(Digits))>>))>>)), Star(In(Whitespace)), Group(2,
              Alt(<<Cat(<<Lit(<<"V">>), Opt(Alt(<<Lit(<<"D","C">>),
              Lit(<<"A","C">>)>>))>>), Lit(<<"W">>), Lit(<<"A">>),
              Lit(<<"b","a","r">>), Lit(<<"p","s","i">>),
              Cat(<<Lit(<<Degree>>), In(CelsiusFahrenheit)>>),
              Lit(<<"g","p","m">>), Lit(<<"l","p","m">>)>>))>>))
    >>

\* line 821: (?:step|procedure)\s+([0-9]+):\s*([A-Za-z0-9\s\-\.]+)
StepPattern ==
    Pattern(2,
        Cat(<<Alt(<<Lit(<<"s","t","e","p">>),
            Lit(<<"p","r","o","c","e","d","u","r","e">>)>>),
            Plus(In(Whitespace)), Group(1, Plus(In(Digits))), Lit(<<":">>),
            Star(In(Whitespace)), Group(2, Plus(In(WordChars)))>>))


(***************************************************************************)
(* The three pattern passes of DIPProcessor                                *)
(***************************************************************************)

PyMax(a, b) == IF a > b THEN a ELSE b

\* _extract_context(content, start, end, context_length=100)
ContextLength == 100

ExtractContext(content, start, end) ==
    Strip(PySlice(content, PyMax(0, start - ContextLength),
                  PyMin(Len(content), end + ContextLength)))

\* str.upper()
PyUpper(s) == [i \in 1..Len(s) |-> UpperChar(s[i])]

\* _normalize_unit_text: strip, upper-case, drop the whitespace inside;
\* None for an empty text
NormalizeUnitText(unit_text) ==
    IF unit_text = <<>> THEN JNull
    ELSE LET normalized ==
                 SelectSeq(PyUpper(Strip(unit_text)),
                           LAMBDA c : c \notin Whitespace)
         IN  IF normalized # <<>> THEN JStr(normalized) ELSE JNull

\* line 299: the unit match lies inside the span of the spec match, ten
\* characters more allowed at its end
UnitSlack == 10

\* lines 297-302: the first match of one unit pattern that lies in the
\* window and has a unit; <<>> when there is none
RECURSIVE UnitOfMatches(_, _, _, _, _)
UnitOfMatches(text, matches, j, match_start, match_end) ==
    IF j > Len(matches) THEN <<>>
    ELSE LET m == matches[j]
         IN  IF /\ m.start >= match_start
                /\ m.end <= match_end + UnitSlack
                /\ ~GroupIsNone(m, 2)
                /\ GroupText(text, m, 2) # <<>>
             THEN <<NormalizeUnitText(GroupText(text, m, 2))>>
             ELSE UnitOfMatches(text, matches, j + 1, match_start, match_end)

\* _extract_unit_from_text
\* the unit found, or what the patterns after it give
FoundOr(found, otherwise) == IF found # <<>> THEN found[1] ELSE otherwise

RECURSIVE ExtractUnitFrom(_, _, _, _)
ExtractUnitFrom(text, p, match_start, match_end) ==
    IF p > Len(UnitPatterns) THEN JNull
    ELSE FoundOr(UnitOfMatches(text, FindIter(UnitPatterns[p], text, 0),
                               1, match_start, match_end),
                 ExtractUnitFrom(text, p + 1, match_start, match_end))

ExtractUnitFromText(text, match_start, match_end) ==
    ExtractUnitFrom(text, 1, match_start, match_end)

\* line 822: the steps are looked for in the 500 characters from the match on
StepWindow == 500

\* line 829
StepLimit == 5

\* lines 824-827: group(2) when it is there and not empty, else group(1)
StepText(text, m) ==
    IF ~GroupIsNone(m, 2) /\ GroupText(text, m, 2) # <<>>
    THEN Strip(GroupText(text, m, 2))
    ELSE Strip(GroupText(text, m, 1))

\* steps[:5] taken before the short texts are dropped
StepsOfMatchesCutFirst(window, matches) ==
    SelectSeq(PySlice([j \in 1..Len(matches) |->
                           StepText(window, matches[j])], 0, StepLimit),
              LAMBDA step_text : Len(step_text) > 5)

\* _extract_steps
\* lines 823-829: the texts of the step matches that are longer than five
\* characters, the first five of them
StepsOfMatches(window, matches) ==
    LET steps == SelectSeq([j \in 1..Len(matches) |->
                               StepText(window, matches[j])],
                           LAMBDA step_text : Len(step_text) > 5)
    IN  SubSeq(steps, 1, PyMin(Len(steps), StepLimit))

StepsOfWindow(window) ==
    StepsOfMatches(window, FindIter(StepPattern, window, 0))

ExtractSteps(content, match_start) ==
    StepsOfWindow(PySlice(content, match_start, match_start + StepWindow))

\* line 343: f"{test_type.title()} Test"
TestName ==
    [ procedure |-> "Procedure Test", checklist |-> "Checklist Test",
      measurement |-> "Measurement Test", safety |-> "Safety Test",
      performance |-> "Performance Test" ]

\* lines 226-239: the entity a match gives, if its value is long enough
EntityOf(entity_type, element, content, m) ==
    LET value == Strip(GroupText(content, m, 1))
    IN  IF Len(value) > 2
        THEN << [ entity_type |-> entity_type,
                  value |-> value,
                  confidence |-> CalculateConfidence(Group0(content, m)),
                  page |-> element.page,
                  context |-> ExtractContext(content, m.start, m.end),
                  bbox |-> element.bbox ] >>
        ELSE <<>>

\* lines 260-281: the spec hint a match gives; the unit is the second group
\* when there is one and it is not empty, else what the text around gives
SpecHintOf(hint_type, element, content, m) ==
    LET value == Strip(GroupText(content, m, 1))
        grouped == IF /\ Len(m.spans) > 1
                      /\ ~GroupIsNone(m, 2)
                      /\ GroupText(content, m, 2) # <<>>
                   THEN Strip(GroupText(content, m, 2))
                   ELSE <<>>
        unit == IF grouped # <<>> THEN JStr(grouped)
                ELSE ExtractUnitFromText(content, m.start, m.end)
    IN  IF Len(value) > 0
        THEN << [ hint_type |-> hint_type,
                  value |-> value,
                  unit |-> unit,
                  page |-> element.page,
                  context |-> ExtractContext(content, m.start, m.end),
                  confidence |-> CalculateConfidence(Group0(content, m)),
                  bbox |-> element.bbox ] >>
        ELSE <<>>

\* lines 333-352: the golden test a match gives
GoldenTestOf(test_type, element, content, m) ==
    LET description == Strip(GroupText(content, m, 1))
    IN  IF Len(description) > 5
        THEN << [ test_name |-> TestName[test_type],
                  test_type |-> test_type,
                  description |-> description,
                  steps |-> ExtractSteps(content, m.start),
                  expected_result |->
                      ExtractContext(content, m.start, m.end),
                  page |-> element.page,
                  confidence |-> CalculateConfidence(Group0(content, m)),
                  bbox |-> element.bbox ] >>
        ELSE <<>>

PassKinds == {"entities", "spec_hints", "golden_tests"}

PatternTable(kind) ==
    CASE kind = "entities" -> EntityPatterns
      [] kind = "spec_hints" -> SpecHintPatterns
      [] kind = "golden_tests" -> GoldenTestPatterns

CandidateOf(kind, type, element, content, m) ==
    CASE kind = "entities" -> EntityOf(type, element, content, m)
      [] kind = "spec_hints" -> SpecHintOf(type, element, content, m)
      [] kind = "golden_tests" -> GoldenTestOf(type, element, content, m)

\* what the except clause around one pattern does: lines 240-242, 282-284
\* and 354-356 log and go on with the next pattern
OnPatternErrorReraise == "raise"

OnPatternError == "continue"

\* a fault: the handling of the at-th match of one pattern raises
Fault(kind, type, index, at) ==
    [kind |-> kind, type |-> type, index |-> index, at |-> at]

\* the match of this pattern whose handling raises, 0 when none does
RaisesAt(faults, kind, type, index) ==
    IF \E f \in faults : f.kind = kind /\ f.type = type /\ f.index = index
    THEN (CHOOSE f \in faults :
              f.kind = kind /\ f.type = type /\ f.index = index).at
    ELSE 0

\* the body of the try: the matches of one pattern in turn, each appending
\* its candidate to the list; the appended candidates stay when a later
\* match raises.  group(1) of a group that took no part in the match is
\* None, and None.strip() raises.
RECURSIVE MatchLoop(_, _, _, _, _, _, _)
MatchLoop(kind, type, element, content, matches, j, raises_at) ==
    IF j > Len(matches) THEN Returns(<<>>)
    ELSE IF Len(matches[j].spans) = 0
         THEN MatchLoop(kind, type, element, content, matches, j + 1,
                        raises_at)
         ELSE IF j = raises_at \/ GroupIsNone(matches[j], 1) THEN Raises
              ELSE LET later == MatchLoop(kind, type, element, content,
                                          matches, j + 1, raises_at)
                   IN  [ raised |-> later.raised,
                         value |-> CandidateOf(kind, type, element, content,
                                               matches[j]) \o later.value ]

\* the rows of a table from row t on, one entry for each pattern, in the
\* order in which the two inner for loops take them
RECURSIVE PatternOrder(_, _)
PatternOrder(table, t) ==
    IF t > Len(table) THEN <<>>
    ELSE [k \in 1..Len(table[t].patterns) |->
              [type |-> table[t].type, index |-> k,
               pattern |-> table[t].patterns[k]]]
             \o PatternOrder(table, t + 1)

RECURSIVE Concat(_)
Concat(lists) ==
    IF lists = <<>> THEN <<>> ELSE Head(lists) \o Concat(Tail(lists))

\* the try of every pattern of the table in turn: what each one appends
\* and whether it raises
TryPatterns(kind, element, content, faults, order) ==
    SubSeq([n \in 1..Len(order) |->
                MatchLoop(kind, order[n].type, element, content,
                          FindIter(order[n].pattern, content, 0), 1,
                          RaisesAt(faults, kind, order[n].type,
                                   order[n].index))],
           1, Len(order))

\* the first pattern at which the pass stops, 0 when it goes through all:
\* a pattern that raises ends the pass only if the except clause raises
\* again
FirstStop(tried) ==
    LET stops == {n \in 1..Len(tried) :
                      tried[n].raised /\ OnPatternError = "raise"}
    IN  IF stops = {} THEN 0
        ELSE CHOOSE n \in stops : \A other \in stops : n <= other

KeptUntil(tried) ==
    LET stop == FirstStop(tried)
    IN  [ raised |-> stop # 0,
          value |-> Concat([n \in 1..(IF stop = 0 THEN Len(tried) ELSE stop)
                                |-> tried[n].value]) ]

\* the two inner for loops on one element: every pattern of every type is
\* tried in turn
PatternLoop(kind, element, content, faults) ==
    KeptUntil(TryPatterns(kind, element, content, faults,
                          PatternOrder(PatternTable(kind), 1)))

\* content = element.content.lower()
LowerContent(element) ==
    SubSeq(PyLower(element.content), 1, Len(element.content))

\* the results of the elements in turn, up to the first one that raises
RECURSIVE JoinResults(_, _)
JoinResults(results, e) ==
    IF e > Len(results) THEN Returns(<<>>)
    ELSE IF results[e].raised THEN results[e]
         ELSE LET later == JoinResults(results, e + 1)
              IN  [ raised |-> later.raised,
                    value |-> results[e].value \o later.value ]

\* the outer for loop: the elements of type text or ocr, their content in
\* small letters
ElementLoop(kind, page_elements, faults) ==
    JoinResults(SubSeq([e \in 1..Len(page_elements) |->
                            IF page_elements[e].element_type
                                   \notin {"text", "ocr"}
                            THEN Returns(<<>>)
                            ELSE PatternLoop(kind, page_elements[e],
                                             LowerContent(page_elements[e]),
                                             faults)],
                       1, Len(page_elements)), 1)

ExtractEntities(page_elements, faults) ==
    ElementLoop("entities", page_elements, faults)

ExtractSpecHints(page_elements, faults) ==
    ElementLoop("spec_hints", page_elements, faults)

ExtractGoldenTests(page_elements, faults) ==
    ElementLoop("golden_tests", page_elements, faults)


(***************************************************************************)
(* One pass called on a list of elements, with patterns whose handling     *)
(* raises                                                                  *)
(***************************************************************************)

MaxElements == 2

ValveText ==
    <<"C","h","e","c","k",":"," ","v","a","l","v","e"," ","s","e","a","l">>

VoltageText ==
    <<"M","o","d","e","l",":"," ","X","2"," ","1","2"," ","v"," ","2","4",
      " ","v">>

PressureElement == TextElement(TextPage, 1, PressureText)
VoltageElement == OcrElement(ScannedPage, 2, VoltageText)
ValveElement == TextElement(TextPage, 3, ValveText)
TableElement == [TextElement(TextPage, 1, PressureText)
                     EXCEPT !.element_type = "table"]

PassElements ==
    {PressureElement, VoltageElement, ValveElement, TableElement}

ElementLists == UNION {[1..n -> PassElements] : n \in 0..MaxElements}

FaultSets ==
    { {},
      {Fault("spec_hints", "voltage", 1, 2)},
      {Fault("golden_tests", "procedure", 1, 1),
       Fault("entities", "model", 1, 1)},
      {Fault("spec_hints", "pressure", 2, 1),
       Fault("spec_hints", "voltage", 1, 1)} }

InitPasses ==
    /\ RecoverIdle
    /\ DipIdle
    /\ PipeIdle
    /\ ParseIdle
    /\ PacketIdle
    /\ call_args \in [kind : PassKinds, page_elements : ElementLists,
                      faults : FaultSets]
    /\ call_result = <<>>
    /\ call_pc = "called"

\* extract_entities, extract_spec_hints or extract_golden_tests is called
ExtractCall ==
    /\ call_pc = "called"
    /\ \E outcome \in {ElementLoop(call_args.kind, call_args.page_elements,
                                    call_args.faults)} :
           /\ call_result' = outcome.value
           /\ call_pc' = IF outcome.raised THEN "raised" ELSE "returned"
    /\ UNCHANGED call_args
    /\ UNCHANGED <<recVars, dipVars, pipeVars, parseVars, packetVars>>

NextPasses == ExtractCall

SpecPasses == InitPasses /\ [][NextPasses]_vars

\* the candidates of the first `count` matches of one pattern on one element
CandidatesOfMatches(kind, type, element, content, matches, count) ==
    Concat([j \in 1..count |->
                IF Len(matches[j].spans) = 0 THEN <<>>
                ELSE CandidateOf(kind, type, element, content, matches[j])])

\* what one pattern contributes on one element: the candidates of all its
\* matches, or of the matches before the one whose handling raises
KeptOfPattern(kind, entry, element, faults) ==
    LET content == LowerContent(element)
        matches == FindIter(entry.pattern, content, 0)
        at == RaisesAt(faults, kind, entry.type, entry.index)
        count == IF at > 0 /\ at <= Len(matches) THEN at - 1
                 ELSE Len(matches)
    IN  CandidatesOfMatches(kind, entry.type, element, content, matches,
                            count)

\* what a pass returns when no failure of a pattern reaches beyond that
\* pattern on that element
KeptOfPass(kind, page_elements, faults) ==
    LET order == PatternOrder(PatternTable(kind), 1)
        scanned == SelectSeq(page_elements,
                             LAMBDA el : el.element_type \in {"text", "ocr"})
    IN  Concat([e \in 1..Len(scanned) |->
                   Concat([n \in 1..Len(order) |->
                              KeptOfPattern(kind, order[n], scanned[e],
                                            faults)])])

\* C15: a pass in which the handling of a pattern raises never raises
\* itself; it returns the candidates collected before each failure and
\* those of every other pattern, type and element.
C15_PatternFailureKeepsTheRest ==
    /\ call_pc # "raised"
    /\ call_pc = "returned"
           => call_result = KeptOfPass(call_args.kind,
                                       call_args.page_elements,
                                       call_args.faults)

\* the voltage pattern fails at its second match on the first element: the
\* hint of its first match is kept and the pressure hint of the second
\* element is found
C15_Witness ==
    /\ call_pc = "returned"
    /\ call_args.kind = "spec_hints"
    /\ call_args.page_elements = <<VoltageElement, PressureElement>>
    /\ call_args.faults = {Fault("spec_hints", "voltage", 1, 2)}
    /\ Len(call_result) = 2
    /\ call_result[1].hint_type = "voltage"
    /\ call_result[1].value = <<"1","2">>
    /\ call_result[1].unit = JStr(<<"V">>)
    /\ call_result[1].confidence = 70
    /\ call_result[2].hint_type = "pressure"
    /\ call_result[2].value = <<"4","5">>
    /\ call_result[2].unit = JStr(<<"p","s","i">>)
    /\ call_result[2].confidence = 85
    /\ call_result[2].page = 1


(***************************************************************************)
(* process_document on the elements parse_pdf returned, and process_chunks *)
(* on the chunks the endpoint read                                         *)
(***************************************************************************)

MaxDocPages == 2

MaxDipChunks == 2

OperatingPressureText ==
    <<"O","p","e","r","a","t","i","n","g"," ","P","r","e","s","s","u","r",
      "e",":"," ","4","5"," ","p","s","i">>

\* a text layer that reads "Operating Pressure: 45 psi"
OperatingPressurePage ==
    Page(TRUE, JStr(OperatingPressureText), JStr(<<"x">>), NoTables, FALSE,
         612, 792)

PacketPageKinds == {OperatingPressurePage, ScannedPage, ScannedBlankPage}

PacketDocuments ==
    UNION {[1..n -> PacketPageKinds] : n \in 0..MaxDocPages}

\* main.py, lines 590-665: a chunk as the endpoint builds it, its page always
\* set
Chunk(content, page) == [content |-> content, page |-> page]

DipChunkKinds == {Chunk(PressureText, 1), Chunk(ValveText, 2)}

DipChunkLists == UNION {[1..n -> DipChunkKinds] : n \in 0..MaxDipChunks}

\* lines 869-877: confidence=1.0 in hundredths
ChunkConfidence == 100

ChunkElement(chunk) ==
    [ page |-> chunk.page,
      element_type |-> "text",
      content |-> chunk.content,
      bbox |-> BoundingBox(0, 0, 0, 0),
      has_text_layer |-> TRUE,
      ocr_used |-> FALSE,
      confidence |-> ChunkConfidence ]

\* lines 866-877: one text element for each chunk
ChunkElements(chunks) ==
    SubSeq([i \in 1..Len(chunks) |-> ChunkElement(chunks[i])],
           1, Len(chunks))

\* len(pages), every page counted as often as it occurs
CountPages(pages) == Len(pages)

\* len(set(pages))
DistinctPages(pages) == Cardinality({pages[i] : i \in 1..Len(pages)})

\* lines 847-858; processing_time is wall-clock time and left out
DocumentPacket(doc_id, page_elements, found_entities, found_hints, found_tests) ==
    [ success |-> TRUE,
      doc_id |-> doc_id,
      entities |-> found_entities,
      spec_hints |-> found_hints,
      golden_tests |-> found_tests,
      pages_processed |->
          DistinctPages([i \in 1..Len(page_elements) |->
                             page_elements[i].page]),
      entities_count |-> Len(found_entities),
      hints_count |-> Len(found_hints),
      tests_count |-> Len(found_tests) ]

\* lines 892-914 without the list of spec hints in 'dip'
ChunksPacketWithoutHints(doc_id, chunks, found_entities, found_hints, found_tests, found_playbook) ==
    [ success |-> TRUE,
      doc_id |-> doc_id,
      dip |-> [ entities |-> found_entities,
                spec_hints |-> <<>>,
                golden_tests |-> found_tests,
                playbook_hints |-> found_playbook ],
      suggestions |-> [ playbooks |-> [hints |-> found_playbook] ],
      pages_processed |->
          DistinctPages([i \in 1..Len(chunks) |-> chunks[i].page]),
      entities_count |-> Len(found_entities),
      hints_count |-> Len(found_hints),
      tests_count |-> Len(found_tests),
      playbook_count |-> Len(found_playbook) ]

\* lines 892-914; of 'suggestions' the one entry that is not a constant
ChunksPacket(doc_id, chunks, found_entities, found_hints, found_tests, found_playbook) ==
    [ success |-> TRUE,
      doc_id |-> doc_id,
      dip |-> [ entities |-> found_entities,
                spec_hints |-> found_hints,
                golden_tests |-> found_tests,
                playbook_hints |-> found_playbook ],
      suggestions |-> [ playbooks |-> [hints |-> found_playbook] ],
      pages_processed |->
          DistinctPages([i \in 1..Len(chunks) |-> chunks[i].page]),
      entities_count |-> Len(found_entities),
      hints_count |-> Len(found_hints),
      tests_count |-> Len(found_tests),
      playbook_count |-> Len(found_playbook) ]

\* no pattern handling raises
NoFaults == {}

InitPacket ==
    /\ RecoverIdle
    /\ PipeIdle
    /\ CallIdle
    /\ entities = <<>>
    /\ spec_hints = <<>>
    /\ golden_tests = <<>>
    /\ packet = NoPacket
    /\ page_num = 0
    /\ pages_total = 0
    /\ pages_parsed = 0
    /\ pages_ocr = 0
    /\ tables_found = 0
    /\ elements = <<>>
    /\ tables = <<>>
    /\ ocr_calls = <<>>
    /\ dip_pc = "idle"
    /\ dip_reply = NoReply
    /\ playbook_hints = <<>>
    /\ dip_raised = FALSE
    /\ dip_requests = <<>>
    /\ \/ \* a PDF is parsed and its elements are given to process_document
          /\ packet_pc = "document"
          /\ parse_pc = "called"
          /\ content_opens = TRUE
          /\ pdf_pages \in PacketDocuments
          /\ extract_tables = TRUE
          /\ ocr_enabled \in BOOLEAN
          /\ tesseract_available \in BOOLEAN
          /\ dip_chunks = <<>>
          /\ playbook_provider = "anthropic"
          /\ anthropic_client = FALSE
          /\ openai_client = FALSE
          /\ supabase_configured = FALSE
       \/ \* the endpoint gives the chunks of a document to process_chunks
          /\ packet_pc = "chunks"
          /\ parse_pc = "idle"
          /\ content_opens = FALSE
          /\ pdf_pages = <<>>
          /\ extract_tables = FALSE
          /\ ocr_enabled = FALSE
          /\ tesseract_available = FALSE
          /\ dip_chunks \in DipChunkLists
          /\ playbook_provider \in Providers
          /\ anthropic_client \in BOOLEAN
          /\ openai_client \in BOOLEAN
          /\ supabase_configured \in BOOLEAN

\* lines 837-843 and 879-883: the three passes, one after the other
RunPasses(page_elements, faults) ==
    [ entities |-> ExtractEntities(page_elements, faults),
      spec_hints |-> ExtractSpecHints(page_elements, faults),
      golden_tests |-> ExtractGoldenTests(page_elements, faults) ]

PassRaised(found) ==
    found.entities.raised \/ found.spec_hints.raised
        \/ found.golden_tests.raised

\* lines 831-858: process_document on what parse_pdf returned
ProcessDocument ==
    /\ packet_pc = "document"
    /\ parse_pc = "returned"
    /\ \E found \in {RunPasses(elements, NoFaults)} :
           IF PassRaised(found)
           THEN /\ packet_pc' = "raised"
                /\ UNCHANGED <<entities, spec_hints, golden_tests, packet>>
           ELSE /\ entities' = found.entities.value
                /\ spec_hints' = found.spec_hints.value
                /\ golden_tests' = found.golden_tests.value
                /\ packet' = DocumentPacket(DocId, elements,
                                            found.entities.value,
                                            found.spec_hints.value,
                                            found.golden_tests.value)
                /\ packet_pc' = "returned"
    /\ UNCHANGED dip_chunks
    /\ UNCHANGED <<recVars, dipVars, pipeVars, parseVars, callVars>>

\* lines 866-883: the chunks become elements and the three passes run
ProcessChunksStart ==
    /\ packet_pc = "chunks"
    /\ \E found \in {RunPasses(ChunkElements(dip_chunks), NoFaults)} :
           IF PassRaised(found)
           THEN /\ packet_pc' = "raised"
                /\ UNCHANGED <<entities, spec_hints, golden_tests>>
           ELSE /\ entities' = found.entities.value
                /\ spec_hints' = found.spec_hints.value
                /\ golden_tests' = found.golden_tests.value
                /\ packet_pc' = "playbook"
    /\ UNCHANGED <<dip_chunks, packet>>
    /\ UNCHANGED <<recVars, dipVars, pipeVars, parseVars, callVars>>

\* line 885: a step of the awaited extract_playbook_hints_anthropic
PlaybookStep ==
    /\ packet_pc = "playbook"
    /\ NextDIP

\* lines 885-914: the extractor has returned and the packet is built; an
\* exception of the extractor is not caught here
ProcessChunksReturn ==
    /\ packet_pc = "playbook"
    /\ dip_pc = "returned"
    /\ IF dip_raised
       THEN /\ packet_pc' = "raised"
            /\ UNCHANGED packet
       ELSE /\ packet' = ChunksPacket(DocId, dip_chunks, entities,
                                      spec_hints, golden_tests,
                                      playbook_hints)
            /\ packet_pc' = "returned"
    /\ UNCHANGED <<dip_chunks, entities, spec_hints, golden_tests>>
    /\ UNCHANGED <<recVars, dipVars, pipeVars, parseVars, callVars>>

NextPacket ==
    \/ ParseOpen
    \/ ParsePage
    \/ ParseReturn
    \/ ProcessDocument
    \/ ProcessChunksStart
    \/ PlaybookStep
    \/ ProcessChunksReturn

SpecPacket == InitPacket /\ [][NextPacket]_vars


(***************************************************************************)
(* Properties of the packets                                               *)
(***************************************************************************)

\* C16: for a two-page document whose page 1 has a text layer reading
\* "Operating Pressure: 45 psi" and whose page 2 has no text layer, parsed
\* with OCR enabled and the engine available, the packet has a pressure hint
\* with value "45", unit "PSI" and confidence of 0.8 or more, and
\* pages_processed is 2.
C16_PressureHintEndToEnd ==
    ( /\ packet_pc = "returned"
      /\ Len(pdf_pages) = 2
      /\ pdf_pages[1] = OperatingPressurePage
      /\ ~pdf_pages[2].has_chars
      /\ ocr_enabled
      /\ tesseract_available )
        => /\ \E i \in 1..Len(packet.spec_hints) :
                  /\ packet.spec_hints[i].hint_type = "pressure"
                  /\ packet.spec_hints[i].value = <<"4","5">>
                  /\ packet.spec_hints[i].unit = JStr(<<"P","S","I">>)
                  /\ packet.spec_hints[i].confidence >= 80
           /\ packet.pages_processed = 2



\* the page numbers of a list of elements or of chunks
PageNumbers(items) == {items[i].page : i \in 1..Len(items)}

\* C18: in every packet process_document and process_chunks return, each
\* count is the length of the list of the same packet it counts, and
\* pages_processed is the number of distinct page numbers among the elements
\* or the chunks given.
C18_CountsMatchLists ==
    packet_pc = "returned"
        => IF parse_pc = "returned"
           THEN /\ packet.entities_count = Len(packet.entities)
                /\ packet.hints_count = Len(packet.spec_hints)
                /\ packet.tests_count = Len(packet.golden_tests)
                /\ packet.pages_processed = Cardinality(PageNumbers(elements))
           ELSE /\ packet.entities_count = Len(packet.dip.entities)
                /\ packet.hints_count = Len(packet.dip.spec_hints)
                /\ packet.tests_count = Len(packet.dip.golden_tests)
                /\ packet.playbook_count = Len(packet.dip.playbook_hints)
                /\ packet.pages_processed = Cardinality(PageNumbers(dip_chunks))

\* two chunks of the same page, with hints, a test and a procedure found
C18_Witness ==
    /\ packet_pc = "returned"
    /\ parse_pc = "idle"
    /\ Len(dip_chunks) = 2
    /\ dip_chunks[1].page = dip_chunks[2].page
    /\ packet.pages_processed = 1
    /\ packet.hints_count = 2
    /\ packet.playbook_count > 0

\* the client of the selected provider was not made: its key is not set
CredentialsAbsent ==
    IF playbook_provider = "openai" THEN ~openai_client
    ELSE ~anthropic_client

\* C19: when the credentials of the selected provider are absent, the
\* extractor returns an empty list and makes no request to the provider or
\* to the storage, and process_chunks returns a successful packet with the
\* entities, spec hints and golden tests found in the chunks.
C19_DisabledWithoutCredentials ==
    (parse_pc = "idle" /\ CredentialsAbsent)
        => /\ dip_requests = <<>>
           /\ dip_pc \in {"idle", "returned"}
           /\ dip_pc = "returned" => playbook_hints = <<>> /\ ~dip_raised
           /\ packet_pc # "raised"
           /\ packet_pc = "returned"
                  => /\ packet.success
                     /\ packet.dip.entities = entities
                     /\ packet.dip.spec_hints = spec_hints
                     /\ packet.dip.golden_tests = golden_tests
                     /\ packet.dip.playbook_hints = <<>>

\* without an Anthropic client, the packet of the chunk that reads
\* "Pressure: 45 psi" has its pressure hint and no procedure
C19_Witness ==
    /\ packet_pc = "returned"
    /\ parse_pc = "idle"
    /\ playbook_provider = "anthropic"
    /\ ~anthropic_client
    /\ dip_chunks = <<Chunk(PressureText, 1)>>
    /\ dip_requests = <<>>
    /\ packet.success
    /\ packet.playbook_count = 0
    /\ \E i \in 1..Len(packet.dip.spec_hints) :
           /\ packet.dip.spec_hints[i].hint_type = "pressure"
           /\ packet.dip.spec_hints[i].value = <<"4","5">>

\* the requests that went to the model of a provider
ProviderCalls(requests) ==
    SelectSeq(requests,
              LAMBDA r : r \in {"anthropic_messages", "openai_responses"})

\* C20: for a document given as N chunks, the extractor makes exactly N
\* calls to the provider, one for each chunk.
C20_OneCallPerChunk ==
    (packet_pc = "returned" /\ parse_pc = "idle" /\ ~CredentialsAbsent)
        => Len(ProviderCalls(dip_requests)) = Len(dip_chunks)


(***************************************************************************)
(* _extract_tables called on a page with one table of any small shape      *)
(***************************************************************************)

MaxTableRows == 2

MaxRowCells == 2

\* what pdfplumber gives for a cell: None, blanks, or a text
CellKinds == {JNull, JStr(<<" ">>), JStr(<<"a">>)}

TableRows == UNION {[1..n -> CellKinds] : n \in 0..MaxRowCells}

TableShapes == UNION {[1..n -> TableRows] : n \in 0..MaxTableRows}

TablePage(table_data) ==
    Page(TRUE, JStr(<<"a","b">>), JStr(<<"x">>),
         << [bbox |-> BoundingBox(10, 20, 300, 120), data |-> table_data] >>,
         FALSE, 612, 792)

InitTables ==
    /\ RecoverIdle
    /\ DipIdle
    /\ PipeIdle
    /\ ParseIdle
    /\ PacketIdle
    /\ call_args \in {TablePage(table_data) : table_data \in TableShapes}
    /\ call_result = <<>>
    /\ call_pc = "called"

\* _extract_tables(page, 1) is called
ExtractTablesCall ==
    /\ call_pc = "called"
    /\ \E outcome \in {ExtractTables(call_args, 1)} :
           /\ call_result' = outcome.value
           /\ call_pc' = IF outcome.raised THEN "raised" ELSE "returned"
    /\ UNCHANGED call_args
    /\ UNCHANGED <<recVars, dipVars, pipeVars, parseVars, packetVars>>

NextTables == ExtractTablesCall

SpecTables == InitTables /\ [][NextTables]_vars

\* C21: every Table _extract_tables produces has rows * cols >= len(cells),
\* whatever the shape of the table data, rows of unequal length included.
C21_CellsFitRowsTimesCols ==
    call_pc = "returned"
        => \A t \in 1..Len(call_result) :
               call_result[t].rows * call_result[t].cols
                   >= Len(call_result[t].cells)


(***************************************************************************)
(* extract_spec_hints called on one element that reads a number and a unit *)
(***************************************************************************)

UnitLeads ==
    { <<>>,
      <<"V","o","l","t","a","g","e",":"," ">>,
      <<"R","a","t","e","d"," ","p","o","w","e","r",":"," ">>,
      <<"L","e","n","g","t","h",":"," ">> }

UnitNumbers == {<<"1","2">>, <<"1",".","5">>}

UnitGaps == {<<>>, <<" ">>}

\* the last one is a unit word with eleven more letters behind it
UnitWords ==
    { <<"V">>,
      <<"V"," ","D","C">>,
      <<"k","W">>,
      <<"i","n">>,
      <<"k","i","l","o","g","r","a","m","s",
        "x","x","x","x","x","x","x","x","x","x","x">> }

UnitTexts ==
    { lead \o number \o gap \o word :
          lead \in UnitLeads, number \in UnitNumbers, gap \in UnitGaps,
          word \in UnitWords }

InitUnits ==
    /\ RecoverIdle
    /\ DipIdle
    /\ PipeIdle
    /\ ParseIdle
    /\ PacketIdle
    /\ call_args \in [kind : {"spec_hints"},
                      page_elements :
                          {<<TextElement(TextPage, 1, text)>> :
                               text \in UnitTexts},
                      faults : {NoFaults}]
    /\ call_result = <<>>
    /\ call_pc = "called"

SpecUnits == InitUnits /\ [][NextPasses]_vars

VDcWord == <<"v"," ","d","c">>

\* behind the value of the match the content reads "v dc"
ReadsVDc(content, m) ==
    LET behind == LStrip(PySliceFrom(content, m.spans[1][2]))
    IN  Len(behind) >= 4 /\ SubSeq(behind, 1, 4) = VDcWord

\* the unit as stated: the second group when the pattern captured one, else
\* the normalized unit of the token in the window, "V DC" giving "VDC",
\* else null
StatedUnit(content, m) ==
    IF Len(m.spans) > 1 /\ ~GroupIsNone(m, 2) /\ GroupText(content, m, 2) # <<>>
    THEN JStr(Strip(GroupText(content, m, 2)))
    ELSE IF ReadsVDc(content, m) THEN JStr(<<"V","D","C">>)
    ELSE ExtractUnitFromText(content, m.start, m.end)

\* the hints of one pattern on the content, each with the unit as stated
StatedHintsOfPattern(entry, element, content, matches) ==
    Concat([j \in 1..Len(matches) |->
                LET hint == SpecHintOf(entry.type, element, content,
                                       matches[j])
                IN  IF Len(matches[j].spans) = 0 \/ hint = <<>> THEN <<>>
                    ELSE << [hint[1] EXCEPT
                                 !.unit = StatedUnit(content, matches[j])] >>])

StatedHints(element) ==
    LET order == PatternOrder(SpecHintPatterns, 1)
        content == LowerContent(element)
    IN  Concat([n \in 1..Len(order) |->
                    StatedHintsOfPattern(order[n], element, content,
                                         FindIter(order[n].pattern, content,
                                                  0))])

\* C22: the unit of a spec hint is the second captured group when the
\* pattern captured one; otherwise the unit of the number and unit token in
\* the window at the match, in capitals and without inner blanks, "V DC"
\* giving "VDC"; and null when there is neither.
C22_UnitOfSpecHint ==
    call_pc = "returned"
        => call_result = StatedHints(call_args.page_elements[1])

(***************************************************************************)
(* extract_golden_tests called on one element that reads a test and the    *)
(* steps behind it                                                         *)
(***************************************************************************)

MaxSteps == 6

StepLead == <<"T","e","s","t",":"," ","a","b","c","d","e","f">>

StepDigit(k) == <<"1","2","3","4","5","6","7","8","9">>[k]

\* the text of the k-th step: seven characters, or two
StepBody(k, short) ==
    IF short THEN <<"p", StepDigit(k)>>
    ELSE <<"p","a","r","t","-","0", StepDigit(k)>>

\* ",step k:" and the text of the step, for the steps from k to n
RECURSIVE StepLines(_, _, _)
StepLines(k, n, shorts) ==
    IF k > n THEN <<>>
    ELSE <<",","s","t","e","p"," ", StepDigit(k), ":">>
             \o StepBody(k, k \in shorts) \o StepLines(k + 1, n, shorts)

\* commas between the test and its one step put the step at the end of the
\* window of 500 characters: cut after six characters of its text, cut
\* after one, and behind the window
WindowPads == {474, 479, 490}

StepTexts ==
    { StepLead \o StepLines(1, n, shorts) :
          n \in 0..MaxSteps, shorts \in SUBSET (1..MaxSteps) }
        \cup { StepLead \o [i \in 1..pad |-> ","] \o StepLines(1, 1, {}) :
                   pad \in WindowPads }

InitSteps ==
    /\ RecoverIdle
    /\ DipIdle
    /\ PipeIdle
    /\ ParseIdle
    /\ PacketIdle
    /\ call_args \in [kind : {"golden_tests"},
                      page_elements :
                          {<<TextElement(TextPage, 1, text)>> :
                               text \in StepTexts},
                      faults : {NoFaults}]
    /\ call_result = <<>>
    /\ call_pc = "called"

SpecSteps == InitSteps /\ [][NextPasses]_vars

\* the starts of the matches that give a golden test, in the order of the
\* tests
TestStartsOf(content, matches) ==
    LET kept == SelectSeq(matches,
                          LAMBDA m : Len(Strip(GroupText(content, m, 1))) > 5)
    IN  [i \in 1..Len(kept) |-> kept[i].start]

TestStarts(content, order) ==
    Concat([n \in 1..Len(order) |->
                TestStartsOf(content, FindIter(order[n].pattern, content, 0))])

\* the texts of the steps matched in the window that starts at start
MatchedStepTexts(window, matches) ==
    [j \in 1..Len(matches) |-> Strip(GroupText(window, matches[j], 2))]

StepTextsFrom(content, start) ==
    MatchedStepTexts(PySlice(content, start, start + 500),
                     FindIter(StepPattern,
                              PySlice(content, start, start + 500), 0))

\* the first five of the texts
FirstFive(texts) == SubSeq(texts, 1, IF Len(texts) < 5 THEN Len(texts) ELSE 5)

\* the j-th of the texts that are longer than five characters
LongText(texts, j) ==
    texts[CHOOSE at \in 1..Len(texts) :
              /\ Len(texts[at]) > 5
              /\ Cardinality({k \in 1..at : Len(texts[k]) > 5}) = j]

\* the first five of the texts that are longer than five characters
FirstFiveLong(texts) ==
    LET long == Cardinality({k \in 1..Len(texts) : Len(texts[k]) > 5})
    IN  [j \in 1..(IF long < 5 THEN long ELSE 5) |-> LongText(texts, j)]

\* C23 as stated: the steps of every golden test are the first min(n, 5) of
\* the n step texts matched in the window of 500 characters from the start
\* of its match, in order, none of the first five skipped
C23_StepsAreFirstFiveMatched ==
    call_pc = "returned" =>
        \A content \in {LowerContent(call_args.page_elements[1])} :
            \A starts \in {TestStarts(content,
                                      PatternOrder(GoldenTestPatterns, 1))} :
                /\ Len(call_result) = Len(starts)
                /\ \A i \in 1..Len(starts) :
                       call_result[i].steps
                           = FirstFive(StepTextsFrom(content, starts[i]))

\* C23: the steps of every golden test are the first min(n, 5) of the n
\* step texts longer than five characters that are matched in the window
\* of 500 characters from the start of its match, in order; never more
\* than 5, and none of these skipped
C23_StepsAreFirstFiveLong ==
    call_pc = "returned" =>
        \A content \in {LowerContent(call_args.page_elements[1])} :
            \A starts \in {TestStarts(content,
                                      PatternOrder(GoldenTestPatterns, 1))} :
                /\ Len(call_result) = Len(starts)
                /\ \A i \in 1..Len(starts) :
                       /\ call_result[i].steps
                              = FirstFiveLong(StepTextsFrom(content,
                                                            starts[i]))
                       /\ Len(call_result[i].steps) <= 5

\* six steps are matched behind the test, one of the first five is short,
\* and the test has five steps
C23_Witness ==
    /\ call_pc = "returned"
    /\ Len(call_result) = 1
    /\ Len(call_result[1].steps) = 5
    /\ \E texts \in {StepTextsFrom(LowerContent(call_args.page_elements[1]),
                                   0)} :
           /\ Len(texts) = 6
           /\ \E k \in 1..5 : Len(texts[k]) <= 5

\* the test whose step lies across the end of the window has the part of
\* the step that is inside
C23_WindowWitness ==
    /\ call_pc = "returned"
    /\ Len(LowerContent(call_args.page_elements[1])) > 500
    /\ Len(call_result) = 1
    /\ call_result[1].steps = << <<"p","a","r","t","-","0">> >>

(***************************************************************************)
(* Properties of the worker pool and of the collecting loop                *)
(***************************************************************************)

\* the chunks whose provider call starts in this step
Starting == {c \in Chunks : future_state[c] = "queued"
                                /\ future_state'[c] = "running"}

\* C24: at no moment are more than max_workers (3) provider calls in
\* flight, and the call of a chunk starts only in a state in which fewer
\* than max_workers calls are in flight
C24_AtMostMaxWorkersInFlight ==
    /\ [](Cardinality(Running) <= MaxWorkers)
    /\ [][Starting # {} => Cardinality(Running) < MaxWorkers]_vars

\* three calls are in flight and the fourth chunk waits for a worker
C24_Witness ==
    /\ Cardinality(Running) = MaxWorkers
    /\ \E c \in Chunks : future_state[c] = "queued"

\* the procedures in what the future of a chunk holds
HeldProcedures(c) ==
    IF future_result[c].raised THEN <<>>
    ELSE PyIter(DictGet(future_result[c].value, KeyProcedures, JArr(<<>>)))

\* the procedures held by the futures of the entries, in the order of the
\* entries
RECURSIVE HeldByEntries(_)
HeldByEntries(entries) ==
    IF entries = <<>> THEN <<>>
    ELSE HeldProcedures(Head(entries).chunk_num)
             \o HeldByEntries(Tail(entries))

\* C25: a step changes all_procedures or chunk_results only if it is the
\* collecting loop taking a future that has completed, and it then adds one
\* entry of that chunk and the procedures its future holds; so no start or
\* return of a worker writes to them, and in every interleaving the
\* aggregate is the procedures of the collected chunks, those of each chunk
\* once, in the order of collection
C25_OnlyTheCollectorWrites ==
    /\ [][(all_procedures' # all_procedures \/ chunk_results' # chunk_results)
              => \E c \in Chunks :
                     /\ future_state[c] = "done"
                     /\ future_state'[c] = "collected"
                     /\ Len(chunk_results') = Len(chunk_results) + 1
                     /\ SubSeq(chunk_results', 1, Len(chunk_results))
                            = chunk_results
                     /\ chunk_results'[Len(chunk_results')].chunk_num = c
                     /\ all_procedures'
                            = all_procedures \o HeldProcedures(c)]_vars
    /\ [](/\ all_procedures = HeldByEntries(chunk_results)
          /\ \A c \in Chunks :
                 Cardinality({i \in 1..Len(chunk_results) :
                                  chunk_results[i].chunk_num = c})
                     = IF future_state[c] = "collected" THEN 1 ELSE 0)

\* the second chunk was collected before the first, both with procedures,
\* while a call was still in flight
C25_Witness ==
    /\ Len(chunk_results) >= 2
    /\ chunk_results[1].chunk_num = 2
    /\ chunk_results[2].chunk_num = 1
    /\ HeldProcedures(1) # <<>>
    /\ HeldProcedures(2) # <<>>
    /\ Running # {}
    /\ all_procedures = HeldProcedures(2) \o HeldProcedures(1)

\* what the two paths return for one answer of the provider
PathsAgree(reply) ==
    /\ TextToParse("anthropic", reply.text) = TextToParse("openai", reply.text)
    /\ AnthropicOutcome(DocId, reply) = OpenAIOutcome(DocId, reply)

\* C26: for the completion text the provider returned, the Anthropic path
\* and the OpenAI path hand the same text to json.loads and return the same
\* list of records, so the list returned is the one the other path returns
\* for that text
C26_PathsDifferOnlyInTransport ==
    (dip_pc = "returned" /\ dip_reply.kind = "text")
        => /\ PathsAgree(dip_reply)
           /\ playbook_hints = AnthropicOutcome(DocId, dip_reply).value
           /\ playbook_hints = OpenAIOutcome(DocId, dip_reply).value

(***************************************************************************)
(* Properties of the counters and of the element list of parse_pdf         *)
(***************************************************************************)

\* C27: after every page that parse_pdf has gone through, and when it
\* returns, pages_ocr <= pages_parsed <= pages_total; the pages counted as
\* parsed are among those gone through
C27_CountersOrdered ==
    parse_pc \in {"pages", "returned"}
        => /\ pages_ocr <= pages_parsed
           /\ pages_parsed <= page_num
           /\ page_num <= pages_total
           /\ pages_parsed <= pages_total

\* a document of three pages has been parsed: one was read by OCR, two are
\* counted as parsed and one was skipped
C27_Witness ==
    /\ parse_pc = "returned"
    /\ pages_total = 3
    /\ pages_parsed = 2
    /\ pages_ocr = 1

\* C28: every turn of the page loop adds at most one element, which has
\* the number of its page, and adds one only when it counts the page in
\* pages_parsed; so the elements are in ascending page order, no two of
\* them share a page, and they are never more than pages_parsed
C28_OneElementPerParsedPage ==
    /\ [][PageTurned
              => /\ Len(elements') <= Len(elements) + 1
                 /\ Len(elements') - Len(elements)
                        <= pages_parsed' - pages_parsed
                 /\ SubSeq(elements', 1, Len(elements)) = elements
                 /\ \A i \in (Len(elements) + 1)..Len(elements') :
                        elements'[i].page = page_num']_vars
    /\ [](parse_pc \in {"pages", "returned"}
              => /\ Len(elements) <= pages_parsed
                 /\ \A i, j \in 1..Len(elements) :
                        i < j => elements[i].page < elements[j].page)

\* three pages gave two elements, a text element and an OCR element; the
\* page between them, counted as parsed, gave none
C28_Witness ==
    /\ parse_pc = "returned"
    /\ pages_total = 3
    /\ Len(elements) = 2
    /\ elements[1].page = 1
    /\ elements[1].element_type = "text"
    /\ elements[2].page = 3
    /\ elements[2].element_type = "ocr"
    /\ pages_parsed = 3

(***************************************************************************)
(* The chunked extraction with a collecting loop that goes on: a future    *)
(* that has finished is taken by as_completed                              *)
(***************************************************************************)

SpecCollecting == Spec /\ WF_vars(\E c \in Chunks : Collect(c))

\* the provider call of every chunk has returned or failed
AllCallsOver == \A c \in Chunks : future_state[c] \in {"done", "collected"}

\* the chunk has one entry in chunk_results
RecordedOnce(c) ==
    Cardinality({i \in 1..Len(chunk_results) :
                     chunk_results[i].chunk_num = c}) = 1

\* C29: once the provider call of every chunk has returned or failed,
\* process_chunks_parallel returns, and from then on chunk_results has one
\* entry for each input chunk and no other, whatever the calls returned
C29_TerminatesWithOneEntryPerChunk ==
    /\ AllCallsOver ~> (pc # "collecting")
    /\ [](pc # "collecting"
              => /\ Len(chunk_results) = NumChunks
                 /\ \A c \in Chunks : RecordedOnce(c))

\* the function has returned after a call gave {"procedures": null} and
\* another {"procedures": "ab"}
C29_Witness ==
    /\ pc = "returned"
    /\ provider_reply[2] = OddReplies[2]
    /\ provider_reply[3] = OddReplies[3]
    /\ \E i \in 1..Len(chunk_results) :
           /\ chunk_results[i].chunk_num = 2
           /\ IsErrorRecord(chunk_results[i].result)
    /\ \E i \in 1..Len(chunk_results) :
           /\ chunk_results[i].chunk_num = 3
           /\ chunk_results[i].result = JsonLoads(OddReplies[3].text).val

(***************************************************************************)
(* The aggregation of results that hold procedures without a title among   *)
(* titled ones                                                             *)
(***************************************************************************)

Titled(title) == JObj(<<Member(KeyTitle, JStr(title))>>)

\* a procedure without the key 'title', one whose title is empty and one
\* whose title is blanks
UntitledProcedures ==
    << JObj(<<Member(KeyPreconditions, JArr(<<>>))>>),
       Titled(<<>>),
       Titled(<<" ","\t"," ">>) >>

\* a procedure whose title is null
NullTitled == JObj(<<Member(KeyTitle, JNull)>>)

TitledBlock(c) == [i \in 1..BlockSize |-> Titled(BlockTitle(c, i))]

ResultOf(procedures) == Returns(JObj(<<Member(KeyProcedures, JArr(procedures))>>))

\* the titled procedures of the chunk, alone, behind the untitled ones, or
\* (in the first chunk) with a null title between them
UntitledResults(c) ==
    { ResultOf(TitledBlock(c)),
      ResultOf(UntitledProcedures \o TitledBlock(c)) }
        \cup (IF c = 1
              THEN {ResultOf(<<Titled(BlockTitle(c, 1)), NullTitled>>)}
              ELSE {})

InitUntitled ==
    /\ RecoverIdle
    /\ DipIdle
    /\ ParseIdle
    /\ CallIdle
    /\ PacketIdle
    /\ chunks_data = [c \in Chunks |-> ChunkData(c)]
    /\ future_state = [c \in Chunks |-> "done"]
    /\ future_result \in [Chunks -> UNION {UntitledResults(c) : c \in Chunks}]
    /\ \A c \in Chunks : future_result[c] \in UntitledResults(c)
    /\ provider_reply = [c \in Chunks |-> NoReply]
    /\ all_procedures = <<>>
    /\ chunk_results = <<>>
    /\ completed_count = 0
    /\ unique_procedures = <<>>
    /\ rerun_procedures = <<>>
    /\ pc = "collecting"

SpecUntitled == InitUntitled /\ [][NextAggregate]_vars

\* the procedure has a title that is text and not only blanks
HasTitle(proc) ==
    /\ HasKey(proc, KeyTitle)
    /\ DictGet(proc, KeyTitle, JNull).k = "str"
    /\ \E i \in 1..Len(DictGet(proc, KeyTitle, JNull).v) :
           DictGet(proc, KeyTitle, JNull).v[i] \notin Whitespace

\* the titles of the titled procedures of a list, trimmed and in small
\* letters
TitlesHeld(procs) ==
    {NormalizedTitle(DictGet(procs[i], KeyTitle, JNull).v) :
         i \in {j \in 1..Len(procs) : HasTitle(procs[j])}}

C30_NullTitleWitness ==
    /\ pc = "failed"
    /\ \E i \in 1..Len(all_procedures) : all_procedures[i] = NullTitled

=============================================================================
